---- MODULE Spec2Model ----
(***************************************************************************)
(* A model of topic-radar's result-processing core: deduplication,         *)
(* grouping and intent-driven prioritisation (core/aggregator.py), intent  *)
(* detection and time-range parsing (core/search.py), URL and text         *)
(* classification (core/categorizer.py), the reading of the external event *)
(* stream (SearchOrchestrator.search, core/researcher.py) and the          *)
(* executive summary (core/summarizer.py).                                 *)
(*                                                                         *)
(* Python strings are modelled as sequences of one-character strings, so   *)
(* that lower(), rstrip(), lstrip(), substring tests and regular           *)
(* expression searches are computed character by character.                *)
(***************************************************************************)
EXTENDS Integers, Sequences, FiniteSets, TLC

VARIABLES
    pc,           \* position of the modelled call
    results,      \* the result list handed to deduplicate / aggregate
    unique,       \* the list returned by deduplicate
    intent,       \* the intent string handed to aggregate / prioritize_sections
    max_results,  \* aggregate's max_results argument
    grouped,      \* the mapping handed to prioritize_sections
    sections,     \* the (content_type, results) list returned
    resections,   \* aggregate run again on the flattened sections
    query,        \* the query handed to detect_intent / parse_time_range
    answer,       \* what detect_intent / parse_time_range returned
    url,          \* the URL handed to classify_url
    content_type, \* what classify_url returned
    fn,           \* the streaming function run: search or research_streaming
    time_range,   \* search's time_range argument
    lens,         \* research_streaming's lens argument
    max_search_results,  \* settings.max_search_results
    _client,      \* the orchestrator's or summarizer's lazily built client
    events,       \* the events the external stream has delivered so far
    sources,      \* research_streaming's running source list
    text_parts,   \* the running list of text chunks
    yielded,      \* the events research_streaming has yielded
    calls,        \* the external calls made, in order
    error,        \* the exception the call ended with, "none" when none
    response,     \* <<>> until search returns, then its SearchResponse alone
    raw_text,     \* generate_executive_summary's raw_text argument
    api,          \* what the summary request will answer
    summary,      \* <<>> until generate_executive_summary / structure returns
    rows,         \* the rows of the history database's table searches
    sqlite_sequence,  \* the largest id the table has ever handed out
    returned,     \* what the last call on the history store returned
    request,      \* the JSON body of the request search_api handles
    http,         \* the responses search_api has returned for the request
    summarizer_client,  \* the client of the module's Summarizer, in search_api
    runs          \* the local variables of each of the concurrent requests

runVars == <<fn, time_range, lens, max_search_results, _client, events, sources,
             text_parts, yielded, calls, error, response>>
sumVars == <<raw_text, api, summary>>
storeVars == <<rows, sqlite_sequence, returned>>
webVars == <<request, http, summarizer_client, runs>>

vars == <<pc, results, unique, intent, max_results, grouped, sections,
          resections, query, answer, url, content_type, runVars, sumVars,
          storeVars, webVars>>

aggVars == <<intent, max_results, grouped, sections, resections>>
textVars == <<query, answer>>
urlVars == <<url, content_type>>

(***************************************************************************)
(* Bounds of the model.                                                    *)
(***************************************************************************)
MaxLen == 3       \* longest result list handed to deduplicate
MaxAggLen == 3    \* longest result list handed to aggregate
MaxResults == 2   \* largest max_results handed to aggregate

(***************************************************************************)
(* Python's None: a value that is no string of single characters.          *)
(***************************************************************************)
None == <<"None">>

(***************************************************************************)
(* str.lower(), str.rstrip(chars), str.lstrip(chars), `sub in s`.          *)
(***************************************************************************)
UpperCase == <<"A","B","C","D","E","F","G","H","I","J","K","L","M",
               "N","O","P","Q","R","S","T","U","V","W","X","Y","Z">>
LowerCase == <<"a","b","c","d","e","f","g","h","i","j","k","l","m",
               "n","o","p","q","r","s","t","u","v","w","x","y","z">>

LowerChar(c) ==
    IF \E i \in 1..26 : UpperCase[i] = c
    THEN LowerCase[CHOOSE i \in 1..26 : UpperCase[i] = c]
    ELSE c

lower(s) == [i \in 1..Len(s) |-> LowerChar(s[i])]

RECURSIVE rstrip(_, _)
rstrip(s, chars) ==
    IF s # <<>> /\ s[Len(s)] \in chars
    THEN rstrip(SubSeq(s, 1, Len(s) - 1), chars)
    ELSE s

RECURSIVE lstrip(_, _)
lstrip(s, chars) ==
    IF s # <<>> /\ s[1] \in chars
    THEN lstrip(Tail(s), chars)
    ELSE s

\* s[i:i+len(sub)] == sub, i counted from 1
StartsWithAt(s, i, sub) ==
    /\ i + Len(sub) - 1 <= Len(s)
    /\ \A k \in 1..Len(sub) : s[i + k - 1] = sub[k]

Contains(s, sub) == \E i \in 1..(Len(s) + 1) : StartsWithAt(s, i, sub)

\* a plausible slip: the cut is one element late
SliceOneMore(s, n) ==
    IF n >= 0
    THEN SubSeq(s, 1, IF n + 1 < Len(s) THEN n + 1 ELSE Len(s))
    ELSE SubSeq(s, 1, Len(s) + n + 1)

\* s[:n] for n >= 0 and s[:n] for n < 0 (all but the last -n elements)
Slice(s, n) ==
    IF n >= 0
    THEN SubSeq(s, 1, IF n < Len(s) THEN n ELSE Len(s))
    ELSE SubSeq(s, 1, Len(s) + n)

(***************************************************************************)
(* core/aggregator.py: deduplicate                                         *)
(***************************************************************************)
\* a plausible slip: only one trailing slash removed
normalised_one_slash(u) ==
    lower(IF u # <<>> /\ u[Len(u)] = "/" THEN SubSeq(u, 1, Len(u) - 1) ELSE u)

\* a plausible slip: the comparison is case-sensitive
normalised_no_lower(u) == rstrip(u, {"/"})

\* url.rstrip("/").lower()
normalised(u) == lower(rstrip(u, {"/"}))

\* getattr(result, "url", "") or ""
UrlOf(result) == IF result.url = None THEN <<>> ELSE result.url

\* a plausible slip: whitespace-only URLs are dropped as well
RECURSIVE dedup_loop_strip(_, _, _)
dedup_loop_strip(rest, seen, acc) ==
    IF rest = <<>> THEN acc
    ELSE LET n == normalised(UrlOf(Head(rest)))
         IN  IF rstrip(n, {" "}) # <<>> /\ n \notin seen
             THEN dedup_loop_strip(Tail(rest), seen \cup {n}, Append(acc, Head(rest)))
             ELSE dedup_loop_strip(Tail(rest), seen, acc)

RECURSIVE dedup_loop(_, _, _)
dedup_loop(rest, seen, acc) ==
    IF rest = <<>> THEN acc
    ELSE LET n == normalised(UrlOf(Head(rest)))
         IN  IF n # <<>> /\ n \notin seen
             THEN dedup_loop(Tail(rest), seen \cup {n}, Append(acc, Head(rest)))
             ELSE dedup_loop(Tail(rest), seen, acc)

deduplicate(rs) == dedup_loop(rs, {}, <<>>)

(***************************************************************************)
(* Inputs of deduplicate: result objects are told apart by id, their       *)
(* position in the list they were created in.                              *)
(***************************************************************************)
DedupUrls ==
    { <<>>, None, <<" ">>, <<"/">>, <<"a">>, <<"A">>, <<"a", "/">>,
      <<"a", "/", "/">>, <<"b">> }

\* the lists of up to n results, each with a (url, content_type) of pairs
ResultLists(pairs, n) ==
    UNION { { [i \in 1..k |-> [id |-> i, url |-> f[i][1], content_type |-> f[i][2]]] :
                f \in [1..k -> pairs] } : k \in 0..n }

\* no streaming call and no summary call in progress
InitNoRun ==
    /\ fn = "none"
    /\ time_range = None
    /\ lens = "general"
    /\ max_search_results = 0
    /\ _client = "None"
    /\ events = <<>>
    /\ sources = <<>>
    /\ text_parts = <<>>
    /\ yielded = <<>>
    /\ calls = <<>>
    /\ error = "none"
    /\ response = <<>>

InitNoSummary ==
    /\ raw_text = None
    /\ api = "none"
    /\ summary = <<>>

\* no call on the history store
InitNoStore ==
    /\ rows = <<>>
    /\ sqlite_sequence = 0
    /\ returned = <<>>

\* no request handled
InitNoWeb ==
    /\ request = None
    /\ http = <<>>
    /\ summarizer_client = "None"
    /\ runs = <<>>

InitOther ==
    /\ InitNoRun
    /\ InitNoSummary
    /\ InitNoStore
    /\ InitNoWeb
    /\ unique = <<>>
    /\ intent = "exploratory"
    /\ max_results = 0
    /\ grouped = <<>>
    /\ sections = <<>>
    /\ resections = <<>>
    /\ query = <<>>
    /\ answer = None
    /\ url = <<>>
    /\ content_type = "unknown"

(***************************************************************************)
(* SpecDedup: deduplicate applied to every bounded result list.            *)
(***************************************************************************)
InitDedup ==
    /\ pc = "start"
    /\ results \in ResultLists(DedupUrls \X {"news"}, MaxLen)
    /\ InitOther

Deduplicate ==
    /\ pc = "start"
    /\ unique' = deduplicate(results)
    /\ pc' = "deduplicated"
    /\ UNCHANGED <<results, aggVars, textVars, urlVars,
                   runVars, sumVars, storeVars, webVars>>

NextDedup == Deduplicate

SpecDedup == InitDedup /\ [][NextDedup]_vars

(***************************************************************************)
(* core/aggregator.py: group_by_type, prioritize_sections, aggregate.      *)
(* A dict is a sequence of [type, results] entries with distinct types, in *)
(* insertion order, which is the order dict.items() iterates in.           *)
(***************************************************************************)
\* a plausible slip: discussions and news exchanged in the academic list
INTENT_PRIORITY_academic_swapped ==
    [academic    |-> <<"papers", "discussions", "news", "videos", "code">>,
     tutorial    |-> <<"news", "code", "discussions", "videos", "papers">>,
     business    |-> <<"news", "discussions", "papers", "videos", "code">>,
     exploratory |-> <<"news", "papers", "discussions", "videos", "code">>]

INTENT_PRIORITY ==
    [academic    |-> <<"papers", "news", "discussions", "videos", "code">>,
     tutorial    |-> <<"news", "code", "discussions", "videos", "papers">>,
     business    |-> <<"news", "discussions", "papers", "videos", "code">>,
     exploratory |-> <<"news", "papers", "discussions", "videos", "code">>]

_DEFAULT_PRIORITY == INTENT_PRIORITY["exploratory"]

\* a plausible slip: the fallback is the first table, not the exploratory one
PriorityOrderFirstTable(i) ==
    IF i \in DOMAIN INTENT_PRIORITY THEN INTENT_PRIORITY[i] ELSE INTENT_PRIORITY["academic"]

\* INTENT_PRIORITY.get(intent, _DEFAULT_PRIORITY)
PriorityOrder(i) ==
    IF i \in DOMAIN INTENT_PRIORITY THEN INTENT_PRIORITY[i] ELSE _DEFAULT_PRIORITY

Keys(d) == { d[k].type : k \in 1..Len(d) }

\* d[t], for t in d
Get(d, t) == d[CHOOSE k \in 1..Len(d) : d[k].type = t].results

\* getattr(result, "content_type", "news") or "news"
TypeOf(result) ==
    IF result.content_type \in {"", "None"} THEN "news" ELSE result.content_type

\* groups[content_type].append(result) on a defaultdict(list)
AppendTo(d, t, r) ==
    IF t \in Keys(d)
    THEN [k \in 1..Len(d) |->
            IF d[k].type = t
            THEN [type |-> t, results |-> Append(d[k].results, r)]
            ELSE d[k]]
    ELSE Append(d, [type |-> t, results |-> <<r>>])

RECURSIVE group_loop(_, _)
group_loop(rest, groups) ==
    IF rest = <<>> THEN groups
    ELSE group_loop(Tail(rest), AppendTo(groups, TypeOf(Head(rest)), Head(rest)))

group_by_type(rs) == group_loop(rs, <<>>)

\* first loop: the sections of the priority list, empty ones skipped
RECURSIVE priority_loop(_, _, _)
priority_loop(order, d, ordered) ==
    IF order = <<>> THEN ordered
    ELSE LET t == Head(order)
         IN  IF t \in Keys(d) /\ Get(d, t) # <<>>
             THEN priority_loop(Tail(order), d, Append(ordered, <<t, Get(d, t)>>))
             ELSE priority_loop(Tail(order), d, ordered)

\* a plausible slip: each remaining section is put in front of the earlier
\* remaining ones
RECURSIVE remaining_loop_front(_, _, _)
remaining_loop_front(items, appended_types, ordered) ==
    IF items = <<>> THEN ordered
    ELSE LET e == Head(items)
             rest == remaining_loop_front(Tail(items), appended_types, <<>>)
         IN  IF e.type \notin appended_types /\ e.results # <<>>
             THEN ordered \o rest \o << <<e.type, e.results>> >>
             ELSE ordered \o rest

\* second loop: the remaining types, in dict order
RECURSIVE remaining_loop(_, _, _)
remaining_loop(items, appended_types, ordered) ==
    IF items = <<>> THEN ordered
    ELSE LET e == Head(items)
         IN  IF e.type \notin appended_types /\ e.results # <<>>
             THEN remaining_loop(Tail(items), appended_types,
                                 Append(ordered, <<e.type, e.results>>))
             ELSE remaining_loop(Tail(items), appended_types, ordered)

prioritize_sections(d, i) ==
    LET first == priority_loop(PriorityOrder(i), d, <<>>)
        appended_types == { first[k][1] : k \in 1..Len(first) }
    IN  remaining_loop(d, appended_types, first)

aggregate(rs, i, m) ==
    prioritize_sections(group_by_type(Slice(deduplicate(rs), m)), i)

\* the sections concatenated back into one list, content types kept
RECURSIVE Flatten(_)
Flatten(secs) ==
    IF secs = <<>> THEN <<>> ELSE Head(secs)[2] \o Flatten(Tail(secs))

(***************************************************************************)
(* SpecAgg: aggregate applied to every bounded result list, then applied   *)
(* again to its own flattened output.                                      *)
(***************************************************************************)
AggResults ==
    { << <<"a">>, "papers" >>,      << <<"a">>, "" >>,      << <<"a">>, "unknown" >>,
      << <<"A", "/">>, "papers" >>, << <<"A", "/">>, "other" >>,
      << <<"b">>, "" >>,            << <<"b">>, "unknown" >>, << <<"b">>, "other" >>,
      << <<"c">>, "papers" >>,      << <<"c">>, "other" >> }
AggIntents == { "academic", "exploratory", "surprise" }

InitAgg ==
    /\ pc = "start"
    /\ results \in ResultLists(AggResults, MaxAggLen)
    /\ InitOther

Aggregate ==
    /\ pc = "start"
    /\ \E i \in AggIntents, m \in -1..MaxResults :
          /\ intent' = i
          /\ max_results' = m
          /\ sections' = aggregate(results, i, m)
    /\ pc' = "aggregated"
    /\ UNCHANGED <<results, unique, grouped, resections, textVars, urlVars,
                   runVars, sumVars, storeVars, webVars>>

Reaggregate ==
    /\ pc = "aggregated"
    /\ resections' = aggregate(Flatten(sections), intent, max_results)
    /\ pc' = "reaggregated"
    /\ UNCHANGED <<results, unique, intent, max_results, grouped, sections,
                   textVars, urlVars,
                   runVars, sumVars, storeVars, webVars>>

NextAgg == Aggregate \/ Reaggregate

SpecAgg == InitAgg /\ [][NextAgg]_vars

(***************************************************************************)
(* core/categorizer.py: classify_url, classify_by_text, classify_result.   *)
(***************************************************************************)
_PAPER_DOMAINS ==
    {
      <<"a","r","x","i","v",".","o","r","g">>, <<"p","u","b","m","e","d",".","n","c","b","i",".","n","l","m",".","n","i","h",".","g","o","v">>,
      <<"p","m","c",".","n","c","b","i",".","n","l","m",".","n","i","h",".","g","o","v">>, <<"s","c","h","o","l","a","r",".","g","o","o","g","l","e",".","c","o","m">>,
      <<"s","e","m","a","n","t","i","c","s","c","h","o","l","a","r",".","o","r","g">>, <<"p","a","p","e","r","s",".","s","s","r","n",".","c","o","m">>,
      <<"r","e","s","e","a","r","c","h","g","a","t","e",".","n","e","t">>, <<"d","l",".","a","c","m",".","o","r","g">>,
      <<"i","e","e","e",".","o","r","g">>, <<"i","e","e","e","x","p","l","o","r","e",".","i","e","e","e",".","o","r","g">>,
      <<"s","p","r","i","n","g","e","r",".","c","o","m">>, <<"s","p","r","i","n","g","e","r","l","i","n","k",".","c","o","m">>,
      <<"l","i","n","k",".","s","p","r","i","n","g","e","r",".","c","o","m">>, <<"s","c","i","e","n","c","e","d","i","r","e","c","t",".","c","o","m">>,
      <<"e","l","s","e","v","i","e","r",".","c","o","m">>, <<"n","a","t","u","r","e",".","c","o","m">>,
      <<"s","c","i","e","n","c","e",".","o","r","g">>, <<"c","e","l","l",".","c","o","m">>,
      <<"b","i","o","r","x","i","v",".","o","r","g">>, <<"m","e","d","r","x","i","v",".","o","r","g">>,
      <<"p","l","o","s",".","o","r","g">>, <<"p","l","o","s","o","n","e",".","o","r","g">>,
      <<"f","r","o","n","t","i","e","r","s","i","n",".","o","r","g">>, <<"m","d","p","i",".","c","o","m">>,
      <<"o","p","e","n","r","e","v","i","e","w",".","n","e","t">>, <<"a","c","m",".","o","r","g">>,
      <<"n","c","b","i",".","n","l","m",".","n","i","h",".","g","o","v">>, <<"n","i","h",".","g","o","v">> }

_DISCUSSION_DOMAINS ==
    {
      <<"r","e","d","d","i","t",".","c","o","m">>, <<"n","e","w","s",".","y","c","o","m","b","i","n","a","t","o","r",".","c","o","m">>,
      <<"s","t","a","c","k","o","v","e","r","f","l","o","w",".","c","o","m">>, <<"s","t","a","c","k","e","x","c","h","a","n","g","e",".","c","o","m">>,
      <<"q","u","o","r","a",".","c","o","m">>, <<"l","o","b","s","t","e",".","r","s">>,
      <<"d","e","v",".","t","o">>, <<"f","o","r","u","m",".","f","a","s","t",".","a","i">>,
      <<"d","i","s","c","u","s","s",".","p","y","t","o","r","c","h",".","o","r","g">>, <<"d","i","s","c","o","u","r","s","e",".","j","u","l","i","a","l","a","n","g",".","o","r","g">> }

_VIDEO_DOMAINS ==
    {
      <<"y","o","u","t","u","b","e",".","c","o","m">>, <<"y","o","u","t","u",".","b","e">>,
      <<"v","i","m","e","o",".","c","o","m">>, <<"t","w","i","t","c","h",".","t","v">>,
      <<"t","e","d",".","c","o","m">>, <<"c","o","u","r","s","e","r","a",".","o","r","g">>,
      <<"u","d","e","m","y",".","c","o","m">> }

_CODE_DOMAINS ==
    {
      <<"g","i","t","h","u","b",".","c","o","m">>, <<"g","i","t","l","a","b",".","c","o","m">>,
      <<"g","i","s","t",".","g","i","t","h","u","b",".","c","o","m">>, <<"c","o","d","e","p","e","n",".","i","o">>,
      <<"r","e","p","l","i","t",".","c","o","m">>, <<"c","o","l","a","b",".","r","e","s","e","a","r","c","h",".","g","o","o","g","l","e",".","c","o","m">>,
      <<"h","u","g","g","i","n","g","f","a","c","e",".","c","o">>, <<"p","y","p","i",".","o","r","g">>,
      <<"n","p","m","j","s",".","c","o","m">> }

Letters == { UpperCase[i] : i \in 1..26 } \cup { LowerCase[i] : i \in 1..26 }
Digits == { "0", "1", "2", "3", "4", "5", "6", "7", "8", "9" }

\* the index of the first element of s from position i on that is in chars,
\* Len(s) + 1 when there is none
FindFrom(s, i, chars) ==
    IF \E k \in i..Len(s) : s[k] \in chars
    THEN CHOOSE k \in i..Len(s) :
            s[k] \in chars /\ \A l \in i..(k - 1) : s[l] \notin chars
    ELSE Len(s) + 1

\* urllib.parse.urlsplit: the URL with a leading "scheme:" removed, a scheme
\* being a letter followed by letters, digits, "+", "-" and "."
AfterScheme(u) ==
    LET c == FindFrom(u, 1, {":"})
    IN  IF /\ c > 1
           /\ c <= Len(u)
           /\ u[1] \in Letters
           /\ \A k \in 1..(c - 1) : u[k] \in Letters \cup Digits \cup {"+", "-", "."}
        THEN SubSeq(u, c + 1, Len(u))
        ELSE u

\* urlparse(url).netloc: what follows "//" up to the first "/", "?" or "#"
netloc(u) ==
    LET r == AfterScheme(u)
    IN  IF Len(r) >= 2 /\ r[1] = "/" /\ r[2] = "/"
        THEN SubSeq(r, 3, FindFrom(r, 3, {"/", "?", "#"}) - 1)
        ELSE <<>>

\* urlsplit raises ValueError on a netloc with one bracket and not the other
RaisesValueError(u) ==
    LET n == netloc(u)
        has(c) == \E k \in 1..Len(n) : n[k] = c
    IN  has("[") # has("]")

\* a plausible slip: nothing is removed from the front of the host
StripDomainNone(h) == h

\* netloc.lower().lstrip("www."): every leading "w" and "." is removed
StripDomain(h) == lstrip(h, {"w", "."})

classify_url(u) ==
    IF RaisesValueError(u) THEN "unknown"
    ELSE LET domain == StripDomain(lower(netloc(u)))
         IN  IF domain = <<>> THEN "unknown"
             ELSE IF domain \in _PAPER_DOMAINS THEN "papers"
             ELSE IF domain \in _DISCUSSION_DOMAINS THEN "discussions"
             ELSE IF domain \in _VIDEO_DOMAINS THEN "videos"
             ELSE IF domain \in _CODE_DOMAINS THEN "code"
             ELSE "news"

\* the alternatives of the four patterns; "." in one matches any character
_PAPER_RE ==
    <<
       <<"a","r","x","i","v">>, <<"p","r","e","p","r","i","n","t">>,
       <<"d","o","i">>, <<"a","b","s","t","r","a","c","t">>,
       <<"m","e","t","h","o","d","o","l","o","g","y">>, <<"f","i","n","d","i","n","g","s">>,
       <<"p","e","e","r",".","r","e","v","i","e","w","e","d">>, <<"p","r","o","c","e","e","d","i","n","g","s">>,
       <<"c","o","n","f","e","r","e","n","c","e"," ","p","a","p","e","r">> >>

_DISCUSSION_RE ==
    <<
       <<"r","e","d","d","i","t">>, <<"t","h","r","e","a","d">>,
       <<"d","i","s","c","u","s","s","i","o","n">>, <<"c","o","m","m","e","n","t">>,
       <<"a","m","a">>, <<"p","o","s","t","e","d">>,
       <<"r","/">>, <<"u","p","v","o","t","e">> >>

_VIDEO_RE ==
    <<
       <<"y","o","u","t","u","b","e">>, <<"v","i","d","e","o">>,
       <<"w","a","t","c","h">>, <<"e","p","i","s","o","d","e">>,
       <<"p","o","d","c","a","s","t">>, <<"l","e","c","t","u","r","e">>,
       <<"t","a","l","k">> >>

_CODE_RE ==
    <<
       <<"g","i","t","h","u","b">>, <<"r","e","p","o">>,
       <<"r","e","p","o","s","i","t","o","r","y">>, <<"p","a","c","k","a","g","e">>,
       <<"l","i","b","r","a","r","y">>, <<"s","n","i","p","p","e","t">>,
       <<"n","p","m">>, <<"p","i","p"," ","i","n","s","t","a","l","l">> >>

\* \w
WordChar(c) == c \in Letters \cup Digits \cup {"_"}

\* \b before position i of s (i in 1..Len(s)+1)
Boundary(s, i) ==
    LET before == i > 1 /\ WordChar(s[i - 1])
        after == i <= Len(s) /\ WordChar(s[i])
    IN  before # after

\* alternative alt matches s at position i, case ignored
AltAt(s, i, alt) ==
    /\ i + Len(alt) - 1 <= Len(s)
    /\ \A k \in 1..Len(alt) :
          \/ alt[k] = "." /\ s[i + k - 1] # "\n"
          \/ alt[k] # "." /\ LowerChar(s[i + k - 1]) = alt[k]

\* re.compile(r"\b(?:alt1|alt2|...)\b", re.IGNORECASE).search(s) is not None
Search(alts, s) ==
    \E a \in 1..Len(alts) : \E i \in 1..(Len(s) + 1) :
        /\ AltAt(s, i, alts[a])
        /\ Boundary(s, i)
        /\ Boundary(s, i + Len(alts[a]))

classify_by_text(title, snippet) ==
    LET combined == title \o <<" ">> \o snippet
    IN  IF Search(_PAPER_RE, combined) THEN "papers"
        ELSE IF Search(_DISCUSSION_RE, combined) THEN "discussions"
        ELSE IF Search(_VIDEO_RE, combined) THEN "videos"
        ELSE IF Search(_CODE_RE, combined) THEN "code"
        ELSE "news"

\* getattr(result, "title", "") or "", getattr(result, "snippet", "") or ""
OrEmpty(text) == IF text = None THEN <<>> ELSE text

\* a plausible slip: the text is consulted for a URL of no host as well
classify_result_text_on_unknown(result) ==
    LET ct == classify_url(UrlOf(result))
    IN  IF ct \notin {"news", "unknown"} THEN ct
        ELSE classify_by_text(OrEmpty(result.title), OrEmpty(result.snippet))

classify_result(result) ==
    LET ct == classify_url(UrlOf(result))
    IN  IF ct # "news" THEN ct
        ELSE classify_by_text(OrEmpty(result.title), OrEmpty(result.snippet))

(***************************************************************************)
(* SpecPrio: prioritize_sections applied to every bounded mapping, empty   *)
(* groups included.                                                        *)
(***************************************************************************)
MaxGroups == 3    \* most entries of a mapping handed to prioritize_sections

PrioTypes == { "papers", "news", "discussions", "videos", "code", "unknown", "other" }
PrioIntents == { "academic", "tutorial", "business", "exploratory", "surprise" }

\* the mappings of k entries: distinct types, each group empty or of one result
Dicts(k) ==
    { [j \in 1..k |->
          [type |-> f[j][1],
           results |-> IF f[j][2]
                       THEN << [id |-> j, url |-> <<"u">>, content_type |-> f[j][1]] >>
                       ELSE <<>>]] :
        f \in { g \in [1..k -> PrioTypes \X BOOLEAN] :
                  \A a, b \in 1..k : a # b => g[a][1] # g[b][1] } }

InitPrio ==
    /\ pc = "start"
    /\ InitNoRun
    /\ InitNoSummary
    /\ InitNoStore
    /\ InitNoWeb
    /\ results = <<>>
    /\ unique = <<>>
    /\ grouped \in UNION { Dicts(k) : k \in 0..MaxGroups }
    /\ intent \in PrioIntents
    /\ max_results = 0
    /\ sections = <<>>
    /\ resections = <<>>
    /\ query = <<>>
    /\ answer = None
    /\ url = <<>>
    /\ content_type = "unknown"

Prioritize ==
    /\ pc = "start"
    /\ sections' = prioritize_sections(grouped, intent)
    /\ pc' = "prioritized"
    /\ UNCHANGED <<results, unique, intent, max_results, grouped, resections,
                   textVars, urlVars,
                   runVars, sumVars, storeVars, webVars>>

NextPrio == Prioritize

SpecPrio == InitPrio /\ [][NextPrio]_vars

(***************************************************************************)
(* What the claims about aggregate and prioritize_sections speak of.       *)
(***************************************************************************)
\* the content type a result is grouped under
GroupName(r) == IF r.content_type = "" THEN "news" ELSE r.content_type

\* the places (section, position) where result r is emitted
Places(secs, r) ==
    UNION { { <<s, q>> : q \in { q \in 1..Len(secs[s][2]) : secs[s][2][q] = r } } :
              s \in 1..Len(secs) }

Truncated ==
    LET d == deduplicate(results)
    IN  [k \in 1..(IF max_results < Len(d) THEN max_results ELSE Len(d)) |-> d[k]]

\* C1: for max_results >= 0 the groups returned by aggregate partition
\* deduplicate(results)[:max_results]: every result of it is in exactly one
\* group, the one its content type names (empty counts as news), no other
\* result is emitted, no group is empty, at most max_results are emitted.
C1_AggregatePartitions ==
    (pc = "aggregated" /\ max_results >= 0) =>
        /\ \A k \in 1..Len(Truncated) :
              /\ Cardinality(Places(sections, Truncated[k])) = 1
              /\ \A p \in Places(sections, Truncated[k]) :
                    sections[p[1]][1] = GroupName(Truncated[k])
        /\ \A s \in 1..Len(sections) :
              /\ sections[s][2] # <<>>
              /\ \A q \in 1..Len(sections[s][2]) :
                    \E k \in 1..Len(Truncated) : Truncated[k] = sections[s][2][q]
        /\ \A s, t \in 1..Len(sections) : s # t => sections[s][1] # sections[t][1]
        /\ Len(Flatten(sections)) <= max_results

C1_Witness ==
    /\ pc = "aggregated"
    /\ max_results = 2
    /\ Len(deduplicate(results)) = 3
    /\ Len(sections) = 2
    /\ \E s \in 1..Len(sections) :
          sections[s][1] = "news" /\ sections[s][2][1].content_type = ""

\* the intent's priority table, the exploratory one for any other intent
TableOf(i) ==
    CASE i = "academic" -> INTENT_PRIORITY.academic
      [] i = "tutorial" -> INTENT_PRIORITY.tutorial
      [] i = "business" -> INTENT_PRIORITY.business
      [] OTHER -> INTENT_PRIORITY.exploratory

InTable(i, t) == \E k \in 1..Len(TableOf(i)) : TableOf(i)[k] = t

SectionNames == [k \in 1..Len(sections) |-> sections[k][1]]

NonEmptyGroup(t) == \E k \in 1..Len(grouped) : grouped[k].type = t /\ grouped[k].results # <<>>

\* C5: prioritize_sections emits the non-empty groups of the intent's table
\* in the table's order, all of them before any group absent from the
\* table; an intent outside the four is ordered by the exploratory table.
C5_TableOrderFirst ==
    pc = "prioritized" =>
        /\ SelectSeq(SectionNames, LAMBDA t : InTable(intent, t))
              = SelectSeq(TableOf(intent), NonEmptyGroup)
        /\ \A k, l \in 1..Len(sections) :
              (InTable(intent, SectionNames[l]) /\ ~InTable(intent, SectionNames[k]))
                  => l < k
        /\ \A k \in 1..Len(sections) :
              /\ NonEmptyGroup(SectionNames[k])
              /\ sections[k][2] = Get(grouped, SectionNames[k])

C5_Witness ==
    /\ pc = "prioritized"
    /\ intent = "surprise"
    /\ Len(grouped) = 3
    /\ grouped[1].type = "unknown"
    /\ grouped[2].type = "papers"
    /\ grouped[3].type = "news"
    /\ SectionNames = <<"news", "papers", "unknown">>

\* C7 as stated: for every max_results, aggregate applied to its own
\* flattened output returns the same sections.
C7_Idempotent ==
    pc = "reaggregated" => resections = sections

\* C7 amended: for every max_results >= 0, aggregate applied to its own
\* flattened output returns the same groups in the same order with the same
\* results in the same order.
C7_IdempotentNonNegative ==
    (pc = "reaggregated" /\ max_results >= 0) => resections = sections

C7_Witness ==
    /\ pc = "reaggregated"
    /\ max_results = 2
    /\ Len(deduplicate(results)) = 3
    /\ Len(sections) = 2
    /\ Flatten(sections) # Slice(deduplicate(results), 2)
    /\ resections = sections

(***************************************************************************)
(* core/search.py: detect_intent.                                          *)
(***************************************************************************)
_ACADEMIC_SIGNALS ==
    {
      <<"p","a","p","e","r">>, <<"p","a","p","e","r","s">>, <<"r","e","s","e","a","r","c","h">>,
      <<"s","t","u","d","y">>, <<"s","t","u","d","i","e","s">>, <<"a","r","x","i","v">>,
      <<"j","o","u","r","n","a","l">>, <<"d","o","i">>, <<"s","c","h","o","l","a","r">>,
      <<"p","r","e","p","r","i","n","t">>, <<"m","e","t","h","o","d","o","l","o","g","y">>, <<"f","i","n","d","i","n","g","s">>,
      <<"e","x","p","e","r","i","m","e","n","t">>, <<"h","y","p","o","t","h","e","s","i","s">>, <<"c","i","t","a","t","i","o","n">>,
      <<"p","e","e","r","-","r","e","v","i","e","w","e","d">>, <<"a","b","s","t","r","a","c","t">> }

_TUTORIAL_SIGNALS ==
    {
      <<"h","o","w"," ","t","o">>, <<"t","u","t","o","r","i","a","l">>, <<"l","e","a","r","n">>,
      <<"g","u","i","d","e">>, <<"e","x","a","m","p","l","e">>, <<"e","x","a","m","p","l","e","s">>,
      <<"s","t","e","p"," ","b","y"," ","s","t","e","p">>, <<"b","e","g","i","n","n","e","r">>, <<"i","n","t","r","o","d","u","c","t","i","o","n"," ","t","o">>,
      <<"g","e","t","t","i","n","g"," ","s","t","a","r","t","e","d">>, <<"c","o","u","r","s","e">>, <<"w","a","l","k","t","h","r","o","u","g","h">>,
      <<"e","x","p","l","a","i","n","e","d">>, <<"f","o","r"," ","d","u","m","m","i","e","s">> }

_BUSINESS_SIGNALS ==
    {
      <<"f","u","n","d","i","n","g">>, <<"s","t","a","r","t","u","p">>, <<"s","t","a","r","t","u","p","s">>,
      <<"m","a","r","k","e","t">>, <<"r","e","v","e","n","u","e">>, <<"v","a","l","u","a","t","i","o","n">>,
      <<"r","a","i","s","e","d">>, <<"a","c","q","u","i","s","i","t","i","o","n">>, <<"i","p","o">>,
      <<"s","e","r","i","e","s"," ","a">>, <<"s","e","r","i","e","s"," ","b">>, <<"v","e","n","t","u","r","e">>,
      <<"i","n","v","e","s","t","o","r">>, <<"u","n","i","c","o","r","n">>, <<"m","r","r">>,
      <<"a","r","r">>, <<"c","h","u","r","n">>, <<"b","2","b">>,
      <<"s","a","a","s">> }

\* sum(1 for sig in signals if sig in query_lower)
hits(signals, query_lower) ==
    Cardinality({ sig \in signals : Contains(query_lower, sig) })

\* a plausible slip: a later key with an equal score replaces the earlier one
RECURSIVE max_key_last(_, _, _)
max_key_last(keys, scores, best) ==
    IF keys = <<>> THEN best
    ELSE max_key_last(Tail(keys), scores,
                      IF scores[Head(keys)] >= scores[best] THEN Head(keys) ELSE best)

\* max(scores, key=lambda k: scores[k]) over the keys from the second on:
\* the first key with the greatest score
RECURSIVE max_key(_, _, _)
max_key(keys, scores, best) ==
    IF keys = <<>> THEN best
    ELSE max_key(Tail(keys), scores,
                 IF scores[Head(keys)] > scores[best] THEN Head(keys) ELSE best)

detect_intent(q) ==
    LET query_lower == lower(q)
        scores == [academic |-> hits(_ACADEMIC_SIGNALS, query_lower),
                   tutorial |-> hits(_TUTORIAL_SIGNALS, query_lower),
                   business |-> hits(_BUSINESS_SIGNALS, query_lower)]
    IN  IF scores.academic = 0 /\ scores.tutorial = 0 /\ scores.business = 0
        THEN "exploratory"
        ELSE max_key(<<"tutorial", "business">>, scores, "academic")

(***************************************************************************)
(* core/search.py: parse_time_range. The four patterns of                  *)
(* _TIME_RANGE_PATTERNS are matched character by character; MatchLen is    *)
(* the length of the match of pattern p that starts at position i of s, 0  *)
(* when there is none.                                                     *)
(***************************************************************************)
\* lit, in lower case, is at position i of s, case ignored
IgnoreCaseAt(s, i, lit) ==
    /\ i + Len(lit) - 1 <= Len(s)
    /\ \A k \in 1..Len(lit) : LowerChar(s[i + k - 1]) = lit[k]

\* \d+ at position j: the number of digits from j on
RECURSIVE DigitRun(_, _)
DigitRun(s, j) == IF j <= Len(s) /\ s[j] \in Digits THEN 1 + DigitRun(s, j + 1) ELSE 0

\* (?:units[1]s?|units[2]s?|...) at position j, "s?" only where plural
AlternativeLen(s, j, units, plural) ==
    IF \E u \in 1..Len(units) : IgnoreCaseAt(s, j, units[u])
    THEN LET u == CHOOSE u \in 1..Len(units) :
                    /\ IgnoreCaseAt(s, j, units[u])
                    /\ \A v \in 1..(u - 1) : ~IgnoreCaseAt(s, j, units[v])
             n == Len(units[u])
         IN  IF plural /\ IgnoreCaseAt(s, j + n, <<"s">>) THEN n + 1 ELSE n
    ELSE 0

TimeUnits == << <<"m","o","n","t","h">>, <<"y","e","a","r">>, <<"w","e","e","k">>, <<"d","a","y">> >>
CalendarUnits == << <<"y","e","a","r">>, <<"m","o","n","t","h">>, <<"w","e","e","k">> >>

\* word \d+ (?:months?|years?|weeks?|days?), case ignored
CountedLen(s, i, word) ==
    LET j == i + Len(word) + 1
        d == DigitRun(s, j)
        u == AlternativeLen(s, j + d + 1, TimeUnits, TRUE)
    IN  IF /\ IgnoreCaseAt(s, i, word \o <<" ">>)
           /\ d >= 1
           /\ IgnoreCaseAt(s, j + d, <<" ">>)
           /\ u > 0
        THEN Len(word) + 1 + d + 1 + u
        ELSE 0

\* (?:this|last) (?:year|month|week), case ignored
CalendarLen(s, i) ==
    LET w == AlternativeLen(s, i, << <<"t","h","i","s">>, <<"l","a","s","t">> >>, FALSE)
        u == AlternativeLen(s, i + w + 1, CalendarUnits, FALSE)
    IN  IF w > 0 /\ IgnoreCaseAt(s, i + w, <<" ">>) /\ u > 0
        THEN w + 1 + u
        ELSE 0

\* \b20\d{2}\b
YearLen(s, i) ==
    IF /\ i + 3 <= Len(s)
       /\ Boundary(s, i)
       /\ s[i] = "2" /\ s[i + 1] = "0"
       /\ s[i + 2] \in Digits /\ s[i + 3] \in Digits
       /\ Boundary(s, i + 4)
    THEN 4
    ELSE 0

NumPatterns == 4

MatchLen(p, s, i) ==
    CASE p = 1 -> CountedLen(s, i, <<"p","a","s","t">>)
      [] p = 2 -> CountedLen(s, i, <<"l","a","s","t">>)
      [] p = 3 -> CalendarLen(s, i)
      [] p = 4 -> YearLen(s, i)

\* pattern.search(query): the leftmost match, None when there is none
search(p, s) ==
    LET match_at(i) == SubSeq(s, i, i + MatchLen(p, s, i) - 1)
        leftmost(starts) ==
            IF starts = {} THEN None
            ELSE match_at(CHOOSE i \in starts : \A k \in starts : i <= k)
    IN  leftmost({ i \in 1..Len(s) : MatchLen(p, s, i) > 0 })

\* a plausible slip: the match that starts first in the query is returned,
\* whichever pattern it is of
RECURSIVE time_range_leftmost(_, _)
time_range_leftmost(p, s) ==
    IF \E i \in 1..Len(s) : \E q \in p..NumPatterns : MatchLen(q, s, i) > 0
    THEN LET i == CHOOSE i \in 1..Len(s) :
                    /\ \E q \in p..NumPatterns : MatchLen(q, s, i) > 0
                    /\ \A k \in 1..(i - 1) : \A q \in p..NumPatterns : MatchLen(q, s, k) = 0
             q == CHOOSE q \in p..NumPatterns :
                    /\ MatchLen(q, s, i) > 0
                    /\ \A r \in p..(q - 1) : MatchLen(r, s, i) = 0
         IN  SubSeq(s, i, i + MatchLen(q, s, i) - 1)
    ELSE None

\* for pattern in _TIME_RANGE_PATTERNS, from pattern p on
RECURSIVE time_range_loop(_, _)
time_range_loop(p, s) ==
    IF p > NumPatterns THEN None
    ELSE IF search(p, s) # None THEN search(p, s)
    ELSE time_range_loop(p + 1, s)

parse_time_range(q) == time_range_loop(1, q)

(***************************************************************************)
(* The queries: up to a number of words joined by single spaces.           *)
(***************************************************************************)
MaxWords == 3       \* most words of a query handed to detect_intent
MaxTimeWords == 4   \* most words of a query handed to parse_time_range

RECURSIVE Join(_)
Join(ws) ==
    IF ws = <<>> THEN <<>>
    ELSE IF Len(ws) = 1 THEN ws[1]
    ELSE ws[1] \o <<" ">> \o Join(Tail(ws))

Queries(words, n) == UNION { { Join(f) : f \in [1..k -> words] } : k \in 0..n }

IntentWords ==
    {
      <<>>, <<"A","R","X","I","V">>, <<"p","a","p","e","r","s">>, <<"h","o","w">>,
      <<"t","o">>, <<"T","u","t","o","r","i","a","l">>, <<"S","t","a","r","t","u","p","s">>, <<"I","P","O">> }

TimeWords ==
    {
      <<"p","a","s","t">>, <<"L","a","s","t">>, <<"t","h","i","s">>, <<"6","0">>,
      <<"m","o","n","t","h","s">>, <<"2","0","2","4">>, <<"x","2","0","2","4">> }

(***************************************************************************)
(* SpecIntent: detect_intent applied to every bounded query.               *)
(***************************************************************************)
InitText(qs, unset) ==
    /\ pc = "start"
    /\ InitNoRun
    /\ InitNoSummary
    /\ InitNoStore
    /\ InitNoWeb
    /\ query \in qs
    /\ answer = unset
    /\ results = <<>>
    /\ unique = <<>>
    /\ intent = "exploratory"
    /\ max_results = 0
    /\ grouped = <<>>
    /\ sections = <<>>
    /\ resections = <<>>
    /\ url = <<>>
    /\ content_type = "unknown"

InitIntent == InitText(Queries(IntentWords, MaxWords), "unset")

DetectIntent ==
    /\ pc = "start"
    /\ answer' = detect_intent(query)
    /\ pc' = "detected"
    /\ UNCHANGED <<query, results, unique, aggVars, urlVars,
                   runVars, sumVars, storeVars, webVars>>

NextIntent == DetectIntent

SpecIntent == InitIntent /\ [][NextIntent]_vars

(***************************************************************************)
(* SpecTime: parse_time_range applied to every bounded query.              *)
(***************************************************************************)
InitTime == InitText(Queries(TimeWords, MaxTimeWords), None)

ParseTimeRange ==
    /\ pc = "start"
    /\ answer' = parse_time_range(query)
    /\ pc' = "parsed"
    /\ UNCHANGED <<query, results, unique, aggVars, urlVars,
                   runVars, sumVars, storeVars, webVars>>

NextTime == ParseTimeRange

SpecTime == InitTime /\ [][NextTime]_vars

(***************************************************************************)
(* SpecUrl: classify_url applied to URLs put together from a scheme part,  *)
(* a host and a path part.                                                 *)
(***************************************************************************)
UrlSchemes ==
    {
      <<"h","t","t","p","s",":","/","/">>, <<"H","T","T","P",":","/","/">>, <<"/","/">>, <<>> }

UrlHosts ==
    {
      <<"a","r","x","i","v",".","o","r","g">>, <<"w","w","w",".","a","r","x","i","v",".","o","r","g">>, <<"A","R","X","I","V",".","o","r","g">>,
      <<"w",".","a","r","x","i","v",".","o","r","g">>, <<"w","w",".","r","e","d","d","i","t",".","c","o","m">>, <<"w","w","w","w",".","g","i","t","h","u","b",".","c","o","m">>,
      <<"w","w","w",".","y","o","u","t","u","b","e",".","c","o","m">>, <<"n","e","w","s",".","y","c","o","m","b","i","n","a","t","o","r",".","c","o","m">>, <<"t","e","c","h","c","r","u","n","c","h",".","c","o","m">>,
      <<"w","w","w",".","w","i","r","e","d",".","c","o","m">>, <<"w","w","w">>, <<"w",".","w">>,
      <<"w","w","w",".">>, <<>> }

UrlPaths ==
    {
      <<>>, <<"/">>, <<"/","a","b","s","/","1">>, <<"?","q","=","1">> }

InitUrl ==
    /\ pc = "start"
    /\ InitNoRun
    /\ InitNoSummary
    /\ InitNoStore
    /\ InitNoWeb
    /\ url \in { x[1] \o x[2] \o x[3] : x \in UrlSchemes \X UrlHosts \X UrlPaths }
    /\ content_type = "unknown"
    /\ results = <<>>
    /\ unique = <<>>
    /\ intent = "exploratory"
    /\ max_results = 0
    /\ grouped = <<>>
    /\ sections = <<>>
    /\ resections = <<>>
    /\ query = <<>>
    /\ answer = None

ClassifyUrl ==
    /\ pc = "start"
    /\ content_type' = classify_url(url)
    /\ pc' = "classified"
    /\ UNCHANGED <<url, results, unique, aggVars, textVars,
                   runVars, sumVars, storeVars, webVars>>

NextUrl == ClassifyUrl

SpecUrl == InitUrl /\ [][NextUrl]_vars

(***************************************************************************)
(* SpecPipeline: steps 2 and 3 of search_api on the four results of the    *)
(* end-to-end scenario, in every order: one on a paper domain, a copy of   *)
(* it differing in a trailing slash, one on a discussion domain, one on a  *)
(* domain of no allow-list.                                                *)
(***************************************************************************)
DefaultMaxResults == 10

PaperUrls ==
    {
      <<"h","t","t","p","s",":","/","/","a","r","x","i","v",".","o","r","g","/","a","b","s","/","1">>,
      <<"h","t","t","p","s",":","/","/","w","w","w",".","n","a","t","u","r","e",".","c","o","m","/","a","/">> }

DiscussionUrls ==
    {
      <<"h","t","t","p","s",":","/","/","r","e","d","d","i","t",".","c","o","m","/","r","/","m","l">>,
      <<"h","t","t","p","s",":","/","/","n","e","w","s",".","y","c","o","m","b","i","n","a","t","o","r",".","c","o","m","/","i","t","e","m">> }

OtherUrls ==
    {
      <<"h","t","t","p","s",":","/","/","t","e","c","h","c","r","u","n","c","h",".","c","o","m","/","x">>,
      <<"h","t","t","p","s",":","/","/","w",".","a","r","x","i","v",".","o","r","g","/","x">>,
      <<"H","T","T","P","S",":","/","/","E","x","a","m","p","l","e",".","C","O","M","/">> }

Titles ==
    {
      <<>>, <<"n","e","w"," ","d","o","i">>, <<"a"," ","t","a","l","k">> }

\* the URL with a trailing slash added, or removed when it has one
SlashTwin(u) ==
    IF u[Len(u)] = "/" THEN SubSeq(u, 1, Len(u) - 1) ELSE Append(u, "/")

\* SearchResult(title=..., url=..., snippet=""): content_type defaults to "news"
SearchResult(i, u, t) ==
    [id |-> i, url |-> u, title |-> t, snippet |-> <<>>, content_type |-> "news"]

Permutations4 == { f \in [1..4 -> 1..4] : \A a, b \in 1..4 : a # b => f[a] # f[b] }

Scenarios ==
    { [i \in 1..4 |->
          SearchResult(i, <<x[1], SlashTwin(x[1]), x[2], x[3]>>[f[i]],
                       <<x[4], x[4], x[4], x[5]>>[f[i]])] :
        x \in PaperUrls \X DiscussionUrls \X OtherUrls \X {<<>>} \X Titles,
        f \in Permutations4 }

InitPipeline ==
    /\ pc = "start"
    /\ results \in Scenarios
    /\ InitOther

\* for result in response.results: result.content_type = classify_result(result).value
ClassifyResults ==
    /\ pc = "start"
    /\ results' = [i \in 1..Len(results) |->
                      [results[i] EXCEPT !.content_type = classify_result(results[i])]]
    /\ pc' = "classified"
    /\ UNCHANGED <<unique, aggVars, textVars, urlVars,
                   runVars, sumVars, storeVars, webVars>>

AggregateAcademic ==
    /\ pc = "classified"
    /\ intent' = "academic"
    /\ max_results' = DefaultMaxResults
    /\ sections' = aggregate(results, "academic", DefaultMaxResults)
    /\ pc' = "aggregated"
    /\ UNCHANGED <<results, unique, grouped, resections, textVars, urlVars,
                   runVars, sumVars, storeVars, webVars>>

NextPipeline == ClassifyResults \/ AggregateAcademic

SpecPipeline == InitPipeline /\ [][NextPipeline]_vars

(***************************************************************************)
(* SpecClassify: classify_result applied to one result, its URL on an      *)
(* allow-list, on none, or without a host, its title and snippet matching  *)
(* none, one or several of the text patterns.                              *)
(***************************************************************************)
ClassifyUrls ==
    {
      None,
      <<"h","t","t","p","s",":","/","/","a","r","x","i","v",".","o","r","g","/","a","b","s","/","1">>,
      <<"h","t","t","p","s",":","/","/","w","w","w",".","r","e","d","d","i","t",".","c","o","m","/","r","/","m","l">>,
      <<"h","t","t","p","s",":","/","/","y","o","u","t","u",".","b","e","/","x">>,
      <<"h","t","t","p","s",":","/","/","g","i","t","h","u","b",".","c","o","m","/","a","/","b">>,
      <<"h","t","t","p","s",":","/","/","t","e","c","h","c","r","u","n","c","h",".","c","o","m","/","x">>,
      <<"/","/","w",".","w">>,
      <<"a","r","x","i","v",".","o","r","g","/","a","b","s","/","1">>,
      <<>> }

ClassifyTitles ==
    {
      None,
      <<>>,
      <<"n","e","w"," ","d","o","i">>,
      <<"a"," ","t","a","l","k">>,
      <<"R","e","d","d","i","t"," ","t","h","r","e","a","d"," ","o","n"," ","a","r","X","i","v">>,
      <<"p","i","p">>,
      <<"m","y"," ","r","e","p","o">> }

ClassifySnippets ==
    {
      <<>>,
      <<"i","n","s","t","a","l","l">>,
      <<"p","o","s","t","e","d"," ","a"," ","v","i","d","e","o">>,
      <<"s","e","e"," ","r","/","m","l">> }

InitClassify ==
    /\ pc = "start"
    /\ results \in { << [id |-> 1, url |-> x[1], title |-> x[2], snippet |-> x[3],
                         content_type |-> "news"] >> :
                        x \in ClassifyUrls \X ClassifyTitles \X ClassifySnippets }
    /\ InitOther

\* result.content_type = classify_result(result).value
ClassifyResult ==
    /\ pc = "start"
    /\ content_type' = classify_result(results[1])
    /\ pc' = "result_classified"
    /\ UNCHANGED <<results, unique, aggVars, textVars, url,
                   runVars, sumVars, storeVars, webVars>>

NextClassify == ClassifyResult

SpecClassify == InitClassify /\ [][NextClassify]_vars

(***************************************************************************)
(* core/search.py: SearchOrchestrator.search, and core/researcher.py:      *)
(* research_streaming. Both read the events of one external stream in      *)
(* order; an event is a record of its type, the type of its content block  *)
(* ("None" when it has none), whether the block has a content list, that   *)
(* list, the type of its delta ("None" when it has none) and the delta's   *)
(* text.                                                                   *)
(***************************************************************************)
MaxEvents == 3    \* most events of a stream
MaxCap == 2       \* largest settings.max_search_results
MaxSources == 5   \* research_streaming's limit on its source list

\* the characters str.strip() removes that occur in the inputs
Whitespace == { " ", "\t", "\n", "\r", "\f" }

\* a plausible slip: the text is tested as it came
strip_none(s) == s

\* str.strip()
strip(s) == rstrip(lstrip(s, Whitespace), Whitespace)

\* _WWW_PREFIX.sub("", urlparse(url).netloc) or url, url on an exception
_hostname(u) ==
    IF RaisesValueError(u) THEN u
    ELSE LET n == netloc(u)
             h == IF StartsWithAt(n, 1, <<"w", "w", "w", ".">>)
                  THEN SubSeq(n, 5, Len(n))
                  ELSE n
         IN  IF h = <<>> THEN u ELSE h

\* a plausible slip: the chunks are joined with a space
RECURSIVE concat_spaced(_)
concat_spaced(parts) ==
    IF parts = <<>> THEN <<>>
    ELSE IF Len(parts) = 1 THEN parts[1]
    ELSE parts[1] \o <<" ">> \o concat_spaced(Tail(parts))

\* "".join(parts)
RECURSIVE concat(_)
concat(parts) ==
    IF parts = <<>> THEN <<>> ELSE Head(parts) \o concat(Tail(parts))

\* a plausible slip: the type of the item is not looked at
IsAnyItem(item) == TRUE

\* getattr(item, "type", None) == "web_search_result"
IsWebSearchResult(item) == item.type = "web_search_result"

\* event.type == "content_block_start" and block and
\* block.type == "web_search_tool_result"
IsToolResult(ev) ==
    ev.type = "content_block_start" /\ ev.block_type = "web_search_tool_result"

\* event.type == "content_block_delta" and delta and delta.type == "text_delta"
IsTextDelta(ev) ==
    ev.type = "content_block_delta" /\ ev.delta_type = "text_delta"

\* getattr(block, "content", []) or []
ContentOf(ev) == IF ev.has_content THEN ev.content ELSE <<>>

\* SearchResult(title=..., url=url, snippet="", source=_hostname(url),
\*              published_date=page_age or None)
SearchResultOf(item) ==
    LET u == OrEmpty(item.url)
    IN  [title |-> OrEmpty(item.title), url |-> u, snippet |-> <<>>,
         source |-> _hostname(u),
         published_date |-> IF item.page_age = <<>> THEN None ELSE item.page_age,
         content_type |-> "news"]

\* SourceRef(title=..., url=..., snippet=page_age or "")
SourceRefOf(item) ==
    [title |-> OrEmpty(item.title), url |-> OrEmpty(item.url),
     snippet |-> OrEmpty(item.page_age)]

\* for item in content: if item.type == "web_search_result": results.append(...)
RECURSIVE result_loop(_, _)
result_loop(items, rs) ==
    IF items = <<>> THEN rs
    ELSE result_loop(Tail(items),
                     IF IsWebSearchResult(Head(items))
                     THEN Append(rs, SearchResultOf(Head(items)))
                     ELSE rs)

\* a plausible slip: sources are taken only until the text has begun
search_event_until_text(st, ev) ==
    IF ev.type = "content_block_start"
    THEN IF IsToolResult(ev) /\ st.text_parts = <<>>
         THEN [st EXCEPT !.results = result_loop(ContentOf(ev), st.results)]
         ELSE st
    ELSE IF IsTextDelta(ev)
    THEN [st EXCEPT !.text_parts = Append(st.text_parts, ev.text)]
    ELSE st

\* the body of search's `for event in stream` for one event
search_event(st, ev) ==
    IF ev.type = "content_block_start"
    THEN IF IsToolResult(ev)
         THEN [st EXCEPT !.results = result_loop(ContentOf(ev), st.results)]
         ELSE st
    ELSE IF IsTextDelta(ev)
    THEN [st EXCEPT !.text_parts = Append(st.text_parts, ev.text)]
    ELSE st

\* a plausible slip: the source list is not limited
RECURSIVE source_loop_unlimited(_, _)
source_loop_unlimited(items, st) ==
    IF items = <<>> THEN st
    ELSE source_loop_unlimited(Tail(items),
            IF IsWebSearchResult(Head(items))
            THEN [st EXCEPT
                    !.sources = Append(st.sources, SourceRefOf(Head(items))),
                    !.yielded = Append(st.yielded,
                                       [event |-> "source",
                                        payload |-> SourceRefOf(Head(items))])]
            ELSE st)

\* for result in content: if result.type == "web_search_result" and
\* len(sources) < 5: sources.append(src); yield ("source", src)
RECURSIVE source_loop(_, _)
source_loop(items, st) ==
    IF items = <<>> THEN st
    ELSE source_loop(Tail(items),
            IF IsWebSearchResult(Head(items)) /\ Len(st.sources) < MaxSources
            THEN [st EXCEPT
                    !.sources = Append(st.sources, SourceRefOf(Head(items))),
                    !.yielded = Append(st.yielded,
                                       [event |-> "source",
                                        payload |-> SourceRefOf(Head(items))])]
            ELSE st)

\* the body of research_streaming's `for event in stream` for one event
research_event(st, ev) ==
    IF ev.type = "content_block_start"
    THEN IF IsToolResult(ev) THEN source_loop(ContentOf(ev), st) ELSE st
    ELSE IF IsTextDelta(ev)
    THEN [st EXCEPT !.text_parts = Append(st.text_parts, ev.text),
                    !.yielded = Append(st.yielded,
                                       [event |-> "token", payload |-> ev.text])]
    ELSE st

\* time_range or parse_time_range(query)
detected_time_range(q, tr) ==
    IF tr # None /\ tr # <<>> THEN tr ELSE parse_time_range(q)

\* f"Research: {query}", then f" (focus on: {detected_time_range})" if any
user_message(q, tr) ==
    <<"R","e","s","e","a","r","c","h",":"," ">> \o q
        \o (IF tr # None /\ tr # <<>>
            THEN <<" ","(","f","o","c","u","s"," ","o","n",":"," ">> \o tr \o <<")">>
            ELSE <<>>)

LensKeys == { "general", "scientific", "startup", "vc" }

\* LENS_SYSTEMS.get(lens, LENS_SYSTEMS["general"])
lens_system(l) == IF l \in LensKeys THEN l ELSE "general"

\* the client's constructor call and the call that opens the stream
ClientCall == [op |-> "Anthropic", system |-> "", message |-> <<>>]
StreamCall(system, message) == [op |-> "stream", system |-> system, message |-> message]

(***************************************************************************)
(* What the external stream can deliver.                                   *)
(***************************************************************************)
Item(type, title, u, page_age) ==
    [type |-> type, title |-> title, url |-> u, page_age |-> page_age]

ItemA == Item("web_search_result", <<"A">>, <<"h","t","t","p","s",":","/","/","w","w","w",".","a",".","o","r","g","/","1">>, <<"2"," ","d","a","y","s"," ","a","g","o">>)
ItemB == Item("web_search_result", None, None, None)
ItemC == Item("web_search_result", <<"C">>, <<"h","t","t","p","s",":","/","/","c",".","o","r","g","/">>, <<>>)
ItemX == Item("web_search_tool_result_error", <<"X">>, <<"h","t","t","p","s",":","/","/","x",".","o","r","g","/">>, None)

Event(type, block_type, has_content, content, delta_type, text) ==
    [type |-> type, block_type |-> block_type, has_content |-> has_content,
     content |-> content, delta_type |-> delta_type, text |-> text]

ToolResult(has_content, content) ==
    Event("content_block_start", "web_search_tool_result", has_content, content,
          "None", <<>>)

Delta(delta_type, text) ==
    Event("content_block_delta", "None", FALSE, <<>>, delta_type, text)

StreamEvents ==
    { ToolResult(FALSE, <<>>),
      ToolResult(TRUE, <<ItemA>>),
      ToolResult(TRUE, <<ItemX, ItemB>>),
      ToolResult(TRUE, <<ItemB, ItemC, ItemA>>),
      Event("content_block_start", "text", TRUE, <<ItemC>>, "None", <<>>),
      Delta("text_delta", <<"a">>),
      Delta("text_delta", <<"b", " ">>),
      Delta("input_json_delta", <<"x">>),
      Event("message_stop", "None", FALSE, <<>>, "None", <<>>) }

\* query, time_range and the state of the orchestrator's client
SearchInputs ==
    { << <<>>, None, "None" >>,
      << <<" ">>, None, "Anthropic" >>,
      << <<" ", "\t", "\n">>, <<"t","h","i","s"," ","w","e","e","k">>, "None" >>,
      << <<" ","a","r","x","i","v"," ","2","0","2","4"," ">>, None, "None" >>,
      << <<"a","i">>, <<"t","h","i","s"," ","w","e","e","k">>, "Anthropic" >> }

\* topic and lens
ResearchInputs ==
    { << <<>>, "general" >>,
      << <<"\n", " ">>, "vc" >>,
      << <<" ","a","i","\n">>, "vc" >>,
      << <<"a","i">>, "surprise" >> }

(***************************************************************************)
(* SpecStream: one call of search or of research_streaming, the external   *)
(* stream delivering any events of StreamEvents, up to MaxEvents of them,  *)
(* and then ending or failing.                                             *)
(***************************************************************************)
InitStream ==
    /\ pc = "start"
    /\ fn \in { "search", "research_streaming" }
    /\ \/ /\ fn = "search"
          /\ \E x \in SearchInputs : query = x[1] /\ time_range = x[2] /\ _client = x[3]
          /\ lens = "general"
          /\ max_search_results \in 0..MaxCap
       \/ /\ fn = "research_streaming"
          /\ \E x \in ResearchInputs : query = x[1] /\ lens = x[2]
          /\ time_range = None
          /\ _client = "None"
          /\ max_search_results = 0
    /\ events = <<>>
    /\ sources = <<>>
    /\ text_parts = <<>>
    /\ yielded = <<>>
    /\ calls = <<>>
    /\ error = "none"
    /\ response = <<>>
    /\ InitNoSummary
    /\ InitNoStore
    /\ InitNoWeb
    /\ results = <<>>
    /\ unique = <<>>
    /\ intent = "exploratory"
    /\ max_results = 0
    /\ grouped = <<>>
    /\ sections = <<>>
    /\ resections = <<>>
    /\ answer = None
    /\ url = <<>>
    /\ content_type = "unknown"

streamFrame == <<unique, aggVars, answer, urlVars, sumVars, storeVars, webVars, query, fn, time_range,
                 lens, max_search_results>>

\* search up to the opening of the stream: the blank check, the prompt, the
\* lazily built client
SearchStarts ==
    /\ pc = "start"
    /\ fn = "search"
    /\ IF strip(query) = <<>>
       THEN /\ error' = "ValueError"
            /\ pc' = "raised"
            /\ UNCHANGED <<_client, calls>>
       ELSE /\ _client' = "Anthropic"
            /\ calls' = calls
                  \o (IF _client = "None" THEN <<ClientCall>> ELSE <<>>)
                  \o << StreamCall(detect_intent(strip(query)),
                                   user_message(strip(query),
                                       detected_time_range(strip(query), time_range))) >>
            /\ pc' = "streaming"
            /\ UNCHANGED error
    /\ UNCHANGED <<results, events, sources, text_parts, yielded, response, streamFrame>>

\* research_streaming up to the opening of the stream
ResearchStarts ==
    /\ pc = "start"
    /\ fn = "research_streaming"
    /\ IF strip(query) = <<>>
       THEN /\ error' = "ValueError"
            /\ pc' = "raised"
            /\ UNCHANGED <<_client, calls>>
       ELSE /\ _client' = "Anthropic"
            /\ calls' = calls
                  \o << ClientCall,
                        StreamCall(lens_system(lens), user_message(strip(query), None)) >>
            /\ pc' = "streaming"
            /\ UNCHANGED error
    /\ UNCHANGED <<results, events, sources, text_parts, yielded, response, streamFrame>>

\* search reads the next event of the stream
SearchOnEvent ==
    /\ pc = "streaming"
    /\ fn = "search"
    /\ Len(events) < MaxEvents
    /\ \E ev \in StreamEvents :
          LET st == search_event([results |-> results, text_parts |-> text_parts], ev)
          IN  /\ events' = Append(events, ev)
              /\ results' = st.results
              /\ text_parts' = st.text_parts
    /\ UNCHANGED <<pc, sources, yielded, _client, calls, error, response, streamFrame>>

\* research_streaming reads the next event of the stream
ResearchOnEvent ==
    /\ pc = "streaming"
    /\ fn = "research_streaming"
    /\ Len(events) < MaxEvents
    /\ \E ev \in StreamEvents :
          LET st == research_event([sources |-> sources, text_parts |-> text_parts,
                                    yielded |-> yielded], ev)
          IN  /\ events' = Append(events, ev)
              /\ sources' = st.sources
              /\ text_parts' = st.text_parts
              /\ yielded' = st.yielded
    /\ UNCHANGED <<pc, results, _client, calls, error, response, streamFrame>>

\* the stream ends: search returns its SearchResponse
SearchReturns ==
    /\ pc = "streaming"
    /\ fn = "search"
    /\ response' = << [query |-> strip(query),
                       intent |-> detect_intent(strip(query)),
                       time_range |-> detected_time_range(strip(query), time_range),
                       results |-> Slice(results, max_search_results),
                       raw_text |-> concat(text_parts)] >>
    /\ pc' = "returned"
    /\ UNCHANGED <<results, events, sources, text_parts, yielded, _client, calls,
                   error, streamFrame>>

\* the stream ends: research_streaming yields raw_text and is exhausted
ResearchReturns ==
    /\ pc = "streaming"
    /\ fn = "research_streaming"
    /\ yielded' = Append(yielded, [event |-> "raw_text", payload |-> concat(text_parts)])
    /\ pc' = "returned"
    /\ UNCHANGED <<results, events, sources, text_parts, response, _client, calls,
                   error, streamFrame>>

\* a plausible slip: the error is caught and what was read is finalized
StreamFailsFinalized ==
    /\ pc = "streaming"
    /\ error' = "APIError"
    /\ pc' = "raised"
    /\ IF fn = "search"
       THEN /\ response' = << [query |-> strip(query),
                               intent |-> detect_intent(strip(query)),
                               time_range |-> detected_time_range(strip(query), time_range),
                               results |-> Slice(results, max_search_results),
                               raw_text |-> concat(text_parts)] >>
            /\ UNCHANGED yielded
       ELSE /\ yielded' = Append(yielded,
                                 [event |-> "raw_text", payload |-> concat(text_parts)])
            /\ UNCHANGED response
    /\ UNCHANGED <<results, events, sources, text_parts, _client, calls, streamFrame>>

\* the stream raises, when it is opened or between two events: neither
\* function has a handler, the exception leaves the call
StreamFails ==
    /\ pc = "streaming"
    /\ error' = "APIError"
    /\ pc' = "raised"
    /\ UNCHANGED <<results, events, sources, text_parts, yielded, response, _client,
                   calls, streamFrame>>

NextStream ==
    \/ SearchStarts
    \/ ResearchStarts
    \/ SearchOnEvent
    \/ ResearchOnEvent
    \/ SearchReturns
    \/ ResearchReturns
    \/ StreamFails

SpecStream == InitStream /\ [][NextStream]_vars

(***************************************************************************)
(* core/summarizer.py: Summarizer.generate_executive_summary. The answer   *)
(* of the external request is a record: kind says whether the request      *)
(* raises, answers no content block, text that is no JSON, JSON that is no *)
(* object, or a JSON object; has is the set of keys of that object.        *)
(***************************************************************************)
MaxSumResults == 2   \* longest result list handed to generate_executive_summary
ContextLimit == 10   \* results[:10]: the titles put into the request

\* str(n) for n >= 0
RECURSIVE str(_)
str(n) ==
    LET digit == <<"0", "1", "2", "3", "4", "5", "6", "7", "8", "9">>[(n % 10) + 1]
    IN  IF n < 10 THEN <<digit>> ELSE Append(str(n \div 10), digit)

\* ExecutiveSummary(overview=..., key_themes=..., notable_trends=..., top_entities=...)
ExecutiveSummary(overview, key_themes, notable_trends, top_entities) ==
    [overview |-> overview, key_themes |-> key_themes,
     notable_trends |-> notable_trends, top_entities |-> top_entities]

\* f"No results found for '{query}'."
no_results_overview(q) == <<"N","o"," ","r","e","s","u","l","t","s"," ","f","o","u","n","d"," ","f","o","r"," ","'">> \o q \o <<"'", ".">>

\* f"Found {len(results)} results for '{query}'."
found_overview(n, q) == <<"F","o","u","n","d"," ">> \o str(n) \o <<" ","r","e","s","u","l","t","s"," ","f","o","r"," ","'">> \o q \o <<"'", ".">>

\* the key of the instruction chosen for the intent
intent_instruction(i) ==
    IF i \in { "academic", "tutorial", "business", "exploratory" } THEN i ELSE "default"

\* the request: system prompt, and the query, intent, instruction and the
\* titles of results[:10] that make up the user content
CreateCall(q, rs, i) ==
    [op |-> "create", system |-> "_EXEC_SUMMARY_SYSTEM",
     message |-> [query |-> q, intent |-> i, instruction |-> intent_instruction(i),
                  titles |-> [k \in 1..Len(Slice(rs, ContextLimit)) |-> rs[k].title]]]

\* data.get(key, default)
get(data, key, default) == IF key \in data.has THEN data[key] ELSE default

\* a plausible slip: the fallback of a failed request says nothing
summary_of_answer_empty_fallback(q, rs, a) ==
    IF a.kind = "object"
    THEN ExecutiveSummary(get(a, "overview", <<>>), get(a, "key_themes", <<>>),
                          get(a, "notable_trends", <<>>), get(a, "top_entities", <<>>))
    ELSE ExecutiveSummary(<<>>, <<>>, <<>>, <<>>)

\* the try block: the summary of the answer, the fallback on any exception
summary_of_answer(q, rs, a) ==
    IF a.kind = "object"
    THEN ExecutiveSummary(get(a, "overview", <<>>), get(a, "key_themes", <<>>),
                          get(a, "notable_trends", <<>>), get(a, "top_entities", <<>>))
    ELSE ExecutiveSummary(found_overview(Len(rs), q), <<>>, <<>>, <<>>)

\* a plausible slip: the narrative is used as it came, not stripped
generate_executive_summary_unstripped(q, rs, i, rt, a, client) ==
    IF rs = <<>>
    THEN [summary |-> ExecutiveSummary(no_results_overview(q), <<>>, <<>>, <<>>),
          calls |-> <<>>, client |-> client]
    ELSE IF rt # None /\ rt # <<>> /\ strip(rt) # <<>>
    THEN [summary |-> ExecutiveSummary(rt, <<>>, <<>>, <<>>),
          calls |-> <<>>, client |-> client]
    ELSE [summary |-> summary_of_answer(q, rs, a),
          calls |-> (IF client = "None" THEN <<ClientCall>> ELSE <<>>)
                        \o <<CreateCall(q, rs, i)>>,
          client |-> "Anthropic"]

\* a plausible slip: the narrative is looked at before the result list
generate_executive_summary_text_first(q, rs, i, rt, a, client) ==
    IF rt # None /\ rt # <<>> /\ strip(rt) # <<>>
    THEN [summary |-> ExecutiveSummary(strip(rt), <<>>, <<>>, <<>>),
          calls |-> <<>>, client |-> client]
    ELSE IF rs = <<>>
    THEN [summary |-> ExecutiveSummary(no_results_overview(q), <<>>, <<>>, <<>>),
          calls |-> <<>>, client |-> client]
    ELSE [summary |-> summary_of_answer(q, rs, a),
          calls |-> (IF client = "None" THEN <<ClientCall>> ELSE <<>>)
                        \o <<CreateCall(q, rs, i)>>,
          client |-> "Anthropic"]

\* the summary returned, the external calls made and the client afterwards
generate_executive_summary(q, rs, i, rt, a, client) ==
    IF rs = <<>>
    THEN [summary |-> ExecutiveSummary(no_results_overview(q), <<>>, <<>>, <<>>),
          calls |-> <<>>, client |-> client]
    ELSE IF rt # None /\ rt # <<>> /\ strip(rt) # <<>>
    THEN [summary |-> ExecutiveSummary(strip(rt), <<>>, <<>>, <<>>),
          calls |-> <<>>, client |-> client]
    ELSE [summary |-> summary_of_answer(q, rs, a),
          calls |-> (IF client = "None" THEN <<ClientCall>> ELSE <<>>)
                        \o <<CreateCall(q, rs, i)>>,
          client |-> "Anthropic"]

(***************************************************************************)
(* SpecSummary: generate_executive_summary applied to bounded result       *)
(* lists, narratives and answers of the external request.                  *)
(***************************************************************************)
Answer(kind, has, overview, key_themes, notable_trends, top_entities) ==
    [kind |-> kind, has |-> has, overview |-> overview, key_themes |-> key_themes,
     notable_trends |-> notable_trends, top_entities |-> top_entities]

ApiAnswers ==
    { Answer("raises", {}, <<>>, <<>>, <<>>, <<>>),
      Answer("no_content", {}, <<>>, <<>>, <<>>, <<>>),
      Answer("not_json", {}, <<>>, <<>>, <<>>, <<>>),
      Answer("not_object", {}, <<>>, <<>>, <<>>, <<>>),
      Answer("object", {}, <<>>, <<>>, <<>>, <<>>),
      Answer("object", { "overview", "top_entities" }, <<"s","u","m">>, <<>>, <<>>, << <<"e">> >>),
      Answer("object", { "overview", "key_themes", "notable_trends", "top_entities" },
             <<"s","u","m">>, << <<"t">> >>, <<>>, << <<"e">> >>) }

SummaryQueries == { <<"a","i">>, <<"i","t","'","s">> }

SummaryTexts == { None, <<>>, <<" ", "\n">>, <<"r","e","p","o","r","t">>, <<" ","a"," ","r","e","p","o","r","t","\n">> }

SummaryIntents == { "academic", "tutorial", "business", "exploratory" }

\* the result lists: every list of up to MaxSumResults results, and one of
\* more than ContextLimit results
SummaryResults ==
    UNION { [1..k -> { [title |-> <<"A">>, url |-> <<"u">>],
                       [title |-> <<>>, url |-> <<"v">>] }] : k \in 0..MaxSumResults }
        \cup { [k \in 1..(ContextLimit + 1) |-> [title |-> <<"A">>, url |-> <<"u">>]] }

InitSummary ==
    /\ pc = "start"
    /\ query \in SummaryQueries
    /\ results \in SummaryResults
    /\ intent \in SummaryIntents
    /\ raw_text \in SummaryTexts
    /\ api \in ApiAnswers
    /\ _client \in { "None", "Anthropic" }
    /\ summary = <<>>
    /\ InitNoStore
    /\ InitNoWeb
    /\ calls = <<>>
    /\ fn = "none"
    /\ time_range = None
    /\ lens = "general"
    /\ max_search_results = 0
    /\ events = <<>>
    /\ sources = <<>>
    /\ text_parts = <<>>
    /\ yielded = <<>>
    /\ error = "none"
    /\ response = <<>>
    /\ unique = <<>>
    /\ max_results = 0
    /\ grouped = <<>>
    /\ sections = <<>>
    /\ resections = <<>>
    /\ answer = None
    /\ url = <<>>
    /\ content_type = "unknown"

GenerateExecutiveSummary ==
    /\ pc = "start"
    /\ LET out == generate_executive_summary(query, results, intent, raw_text, api, _client)
       IN  /\ summary' = <<out.summary>>
           /\ calls' = calls \o out.calls
           /\ _client' = out.client
    /\ pc' = "summarized"
    /\ UNCHANGED <<query, results, intent, raw_text, api, unique, max_results, grouped,
                   sections, resections, answer, urlVars, fn, time_range, lens,
                   max_search_results, events, sources, text_parts, yielded, error,
                   response, storeVars, webVars>>

NextSummary == GenerateExecutiveSummary

SpecSummary == InitSummary /\ [][NextSummary]_vars

(***************************************************************************)
(* core/researcher.py: structure.  The parse request raises, answers       *)
(* without a parsed output, or answers a TopicSummary.                     *)
(***************************************************************************)
ReportLimit == 2000   \* raw_text[:2000]: the report put into the request
PromptSources == 5    \* sources[:5]: the sources put into the request
SourceLimit == 10     \* sources[:10]: the streaming sources taken over
MaxParsed == 2        \* longest source list the parse request answers
MaxStreamed == 2      \* longest list of streaming sources handed to structure

\* TopicSummary(topic=..., overview=..., ..., sources=...)
TopicSummary(topic, overview, key_points, trends, gaps_and_caveats, srcs) ==
    [topic |-> topic, overview |-> overview, key_points |-> key_points,
     trends |-> trends, gaps_and_caveats |-> gaps_and_caveats, sources |-> srcs]

\* structured.model_copy(update={"topic": topic, "lens": lens}): the copy
\* carries lens as an attribute next to the fields of the model
model_copy_topic_lens(structured, topic, l) ==
    [topic |-> topic, overview |-> structured.overview,
     key_points |-> structured.key_points, trends |-> structured.trends,
     gaps_and_caveats |-> structured.gaps_and_caveats,
     sources |-> structured.sources, lens |-> l]

\* the request: system prompt, and the topic, the title and URL of
\* sources[:5] and the report cut to 2000 characters
ParseCall(topic, rt, srcs) ==
    [op |-> "parse", system |-> "STRUCTURE_SYSTEM",
     message |-> [topic |-> topic,
                  sources |-> [k \in 1..Len(Slice(srcs, PromptSources)) |->
                                   <<srcs[k].title, srcs[k].url>>],
                  report |-> IF Len(rt) > ReportLimit THEN Slice(rt, ReportLimit) ELSE rt]]

\* a plausible slip: the streaming sources are taken whenever there are
\* more of them than parsed ones
structure_when_fewer(topic, rt, srcs, l, a) ==
    LET made == <<ClientCall, ParseCall(topic, rt, srcs)>>
    IN  IF a.kind = "raises"
        THEN [summary |-> <<>>, calls |-> made, error |-> "APIError"]
        ELSE IF a.kind = "none"
        THEN [summary |-> <<>>, calls |-> made, error |-> "AttributeError"]
        ELSE LET merged == IF Len(a.sources) < Len(srcs)
                           THEN Slice(srcs, SourceLimit) ELSE a.sources
             IN  [summary |-> << model_copy_topic_lens(
                                      TopicSummary(a.topic, a.overview, a.key_points,
                                                   a.trends, a.gaps_and_caveats, merged),
                                      topic, l) >>,
                  calls |-> made, error |-> "none"]

\* the TopicSummary returned (none when an exception leaves the function),
\* the external calls made and the exception
structure(topic, rt, srcs, l, a) ==
    LET made == <<ClientCall, ParseCall(topic, rt, srcs)>>
    IN  IF a.kind = "raises"
        THEN [summary |-> <<>>, calls |-> made, error |-> "APIError"]
        ELSE IF a.kind = "none"
        THEN [summary |-> <<>>, calls |-> made, error |-> "AttributeError"]
        ELSE LET merged == IF a.sources = <<>> /\ srcs # <<>>
                           THEN Slice(srcs, SourceLimit) ELSE a.sources
             IN  [summary |-> << model_copy_topic_lens(
                                      TopicSummary(a.topic, a.overview, a.key_points,
                                                   a.trends, a.gaps_and_caveats, merged),
                                      topic, l) >>,
                  calls |-> made, error |-> "none"]

(***************************************************************************)
(* SpecStructure: structure applied to bounded topics, reports, streaming  *)
(* sources and answers of the parse request.                               *)
(***************************************************************************)
SourceRef(title, u, snippet) == [title |-> title, url |-> u, snippet |-> snippet]

\* the k-th of a run of distinct sources
NumberedSource(k) == SourceRef(<<"S">> \o str(k), <<"u">> \o str(k), <<>>)

ParsedSources ==
    UNION { [1..k -> { SourceRef(<<"P">>, <<"p">>, <<"s">>), NumberedSource(1) }] :
            k \in 0..MaxParsed }

\* the streaming sources: every list of up to MaxStreamed sources, and the
\* lists of SourceLimit and of more than SourceLimit distinct sources
StreamedSources ==
    UNION { [1..k -> { NumberedSource(1), NumberedSource(2) }] : k \in 0..MaxStreamed }
        \cup { [k \in 1..n |-> NumberedSource(k)] : n \in { SourceLimit, SourceLimit + 1 } }

ParseAnswer(kind, topic, srcs) ==
    [kind |-> kind, topic |-> topic, overview |-> <<"o">>, key_points |-> << <<"k">> >>,
     trends |-> <<"t">>, gaps_and_caveats |-> <<>>, sources |-> srcs]

ParseAnswers ==
    { ParseAnswer("raises", <<>>, <<>>), ParseAnswer("none", <<>>, <<>>) }
        \cup { ParseAnswer("object", t, s) : t \in { <<"a","i">>, <<"A","I","?">> },
                                              s \in ParsedSources }

StructureReports == { <<>>, <<"r","e","p","o","r","t">>, [k \in 1..(ReportLimit + 1) |-> "x"] }

InitStructure ==
    /\ pc = "start"
    /\ fn = "structure"
    /\ query \in { <<"a","i">>, <<"g","o">> }
    /\ raw_text \in StructureReports
    /\ sources \in StreamedSources
    /\ lens \in { "general", "vc" }
    /\ api \in ParseAnswers
    /\ summary = <<>>
    /\ calls = <<>>
    /\ error = "none"
    /\ results = <<>>
    /\ time_range = None
    /\ max_search_results = 0
    /\ _client = "None"
    /\ events = <<>>
    /\ text_parts = <<>>
    /\ yielded = <<>>
    /\ response = <<>>
    /\ InitNoStore
    /\ InitNoWeb
    /\ unique = <<>>
    /\ intent = "exploratory"
    /\ max_results = 0
    /\ grouped = <<>>
    /\ sections = <<>>
    /\ resections = <<>>
    /\ answer = None
    /\ url = <<>>
    /\ content_type = "unknown"

Structure ==
    /\ pc = "start"
    /\ fn = "structure"
    /\ LET out == structure(query, raw_text, sources, lens, api)
       IN  /\ summary' = out.summary
           /\ calls' = calls \o out.calls
           /\ error' = out.error
           /\ pc' = IF out.error = "none" THEN "returned" ELSE "raised"
    /\ UNCHANGED <<results, unique, aggVars, query, answer, urlVars, fn, time_range, lens,
                   max_search_results, _client, events, sources, text_parts, yielded,
                   response, raw_text, api, storeVars, webVars>>

NextStructure == Structure

SpecStructure == InitStructure /\ [][NextStructure]_vars

(***************************************************************************)
(* core/history.py: the table searches of the SQLite database, and save,   *)
(* get_all, get_by_id and delete on it.  A row holds the summary as the    *)
(* JSON text model_dump_json writes, and created_at as ISO text; the rows  *)
(* are kept in the order they were inserted.                               *)
(***************************************************************************)
MaxOps == 3      \* most save and delete calls made on the store
MaxLimit == 2    \* largest limit handed to get_all

\* a plausible slip: the characters are written as they are
RECURSIVE escape_none(_)
escape_none(s) == IF s = <<>> THEN <<>> ELSE <<Head(s)>> \o escape_none(Tail(s))

\* the characters of a JSON string, escaped
RECURSIVE escape(_)
escape(s) ==
    IF s = <<>> THEN <<>>
    ELSE (IF Head(s) = "\"" THEN <<"\\", "\"">>
          ELSE IF Head(s) = "\\" THEN <<"\\", "\\">>
          ELSE IF Head(s) = "\n" THEN <<"\\", "n">>
          ELSE <<Head(s)>>) \o escape(Tail(s))

json_string(s) == <<"\"">> \o escape(s) \o <<"\"">>

RECURSIVE json_strings(_)
json_strings(list) ==
    IF list = <<>> THEN <<>>
    ELSE json_string(Head(list))
             \o (IF Tail(list) = <<>> THEN <<>> ELSE <<",">> \o json_strings(Tail(list)))

json_source(x) ==
    <<"{","\"","t","i","t","l","e","\"",":">> \o json_string(x.title) \o <<",","\"","u","r","l","\"",":">> \o json_string(x.url)
        \o <<",","\"","s","n","i","p","p","e","t","\"",":">> \o json_string(x.snippet) \o <<"}">>

RECURSIVE json_sources(_)
json_sources(list) ==
    IF list = <<>> THEN <<>>
    ELSE json_source(Head(list))
             \o (IF Tail(list) = <<>> THEN <<>> ELSE <<",">> \o json_sources(Tail(list)))

\* summary.model_dump_json()
model_dump_json(s) ==
    <<"{","\"","t","o","p","i","c","\"",":">> \o json_string(s.topic)
        \o <<",","\"","o","v","e","r","v","i","e","w","\"",":">> \o json_string(s.overview)
        \o <<",","\"","k","e","y","_","p","o","i","n","t","s","\"",":">> \o <<"[">> \o json_strings(s.key_points) \o <<"]">>
        \o <<",","\"","t","r","e","n","d","s","\"",":">> \o json_string(s.trends)
        \o <<",","\"","g","a","p","s","_","a","n","d","_","c","a","v","e","a","t","s","\"",":">> \o json_string(s.gaps_and_caveats)
        \o <<",","\"","s","o","u","r","c","e","s","\"",":">> \o <<"[">> \o json_sources(s.sources) \o <<"]">>
        \o <<"}">>

\* what a parser returns: the value read and the position after it
Failed == [ok |-> FALSE, value |-> <<>>, next |-> 0]
Parsed(v, n) == [ok |-> TRUE, value |-> v, next |-> n]

\* the position after lit when t holds lit at position i, 0 otherwise
expect(t, i, lit) ==
    IF i > 0 /\ i + Len(lit) - 1 <= Len(t) /\ SubSeq(t, i, i + Len(lit) - 1) = lit
    THEN i + Len(lit) ELSE 0

\* the characters of a JSON string up to its closing quote, unescaped
RECURSIVE scan_string(_, _, _)
scan_string(t, j, acc) ==
    IF j > Len(t) THEN Failed
    ELSE IF t[j] = "\"" THEN Parsed(acc, j + 1)
    ELSE IF t[j] = "\\"
    THEN IF j + 1 > Len(t) THEN Failed
         ELSE IF t[j + 1] = "\"" THEN scan_string(t, j + 2, Append(acc, "\""))
         ELSE IF t[j + 1] = "\\" THEN scan_string(t, j + 2, Append(acc, "\\"))
         ELSE IF t[j + 1] = "n" THEN scan_string(t, j + 2, Append(acc, "\n"))
         ELSE Failed
    ELSE scan_string(t, j + 1, Append(acc, t[j]))

parse_string(t, i) ==
    IF expect(t, i, <<"\"">>) = 0 THEN Failed ELSE scan_string(t, i + 1, <<>>)

RECURSIVE parse_string_items(_, _, _)
parse_string_items(t, i, acc) ==
    LET s == parse_string(t, i)
    IN  IF ~s.ok THEN Failed
        ELSE IF expect(t, s.next, <<",">>) # 0
        THEN parse_string_items(t, s.next + 1, Append(acc, s.value))
        ELSE IF expect(t, s.next, <<"]">>) # 0
        THEN Parsed(Append(acc, s.value), s.next + 1)
        ELSE Failed

parse_string_list(t, i) ==
    IF expect(t, i, <<"[">>) = 0 THEN Failed
    ELSE IF expect(t, i + 1, <<"]">>) # 0 THEN Parsed(<<>>, i + 2)
    ELSE parse_string_items(t, i + 1, <<>>)

parse_source(t, i) ==
    LET closed(title, u, snippet) ==
            IF snippet.ok /\ expect(t, snippet.next, <<"}">>) # 0
            THEN Parsed([title |-> title.value, url |-> u.value, snippet |-> snippet.value],
                        snippet.next + 1)
            ELSE Failed
        with_url(title, u) ==
            IF u.ok
            THEN closed(title, u, parse_string(t, expect(t, u.next, <<",","\"","s","n","i","p","p","e","t","\"",":">>)))
            ELSE Failed
        with_title(title) ==
            IF title.ok
            THEN with_url(title, parse_string(t, expect(t, title.next, <<",","\"","u","r","l","\"",":">>)))
            ELSE Failed
    IN  with_title(parse_string(t, expect(t, i, <<"{","\"","t","i","t","l","e","\"",":">>)))

RECURSIVE parse_source_items(_, _, _)
parse_source_items(t, i, acc) ==
    LET s == parse_source(t, i)
    IN  IF ~s.ok THEN Failed
        ELSE IF expect(t, s.next, <<",">>) # 0
        THEN parse_source_items(t, s.next + 1, Append(acc, s.value))
        ELSE IF expect(t, s.next, <<"]">>) # 0
        THEN Parsed(Append(acc, s.value), s.next + 1)
        ELSE Failed

parse_source_list(t, i) ==
    IF expect(t, i, <<"[">>) = 0 THEN Failed
    ELSE IF expect(t, i + 1, <<"]">>) # 0 THEN Parsed(<<>>, i + 2)
    ELSE parse_source_items(t, i + 1, <<>>)

\* TopicSummary.model_validate_json(text), for the text of a row: the fields
\* in the order model_dump_json writes them; ok is FALSE where it raises
model_validate_json(t) ==
    LET closed(topic, overview, points, trends, gaps, srcs) ==
            IF srcs.ok /\ expect(t, srcs.next, <<"}">>) = Len(t) + 1
            THEN Parsed(TopicSummary(topic.value, overview.value, points.value, trends.value,
                                     gaps.value, srcs.value), Len(t) + 1)
            ELSE Failed
        with_gaps(topic, overview, points, trends, gaps) ==
            IF gaps.ok
            THEN closed(topic, overview, points, trends, gaps,
                        parse_source_list(t, expect(t, gaps.next, <<",","\"","s","o","u","r","c","e","s","\"",":">>)))
            ELSE Failed
        with_trends(topic, overview, points, trends) ==
            IF trends.ok
            THEN with_gaps(topic, overview, points, trends,
                           parse_string(t, expect(t, trends.next, <<",","\"","g","a","p","s","_","a","n","d","_","c","a","v","e","a","t","s","\"",":">>)))
            ELSE Failed
        with_points(topic, overview, points) ==
            IF points.ok
            THEN with_trends(topic, overview, points,
                             parse_string(t, expect(t, points.next, <<",","\"","t","r","e","n","d","s","\"",":">>)))
            ELSE Failed
        with_overview(topic, overview) ==
            IF overview.ok
            THEN with_points(topic, overview,
                             parse_string_list(t, expect(t, overview.next, <<",","\"","k","e","y","_","p","o","i","n","t","s","\"",":">>)))
            ELSE Failed
        with_topic(topic) ==
            IF topic.ok
            THEN with_overview(topic,
                               parse_string(t, expect(t, topic.next, <<",","\"","o","v","e","r","v","i","e","w","\"",":">>)))
            ELSE Failed
    IN  with_topic(parse_string(t, expect(t, 1, <<"{","\"","t","o","p","i","c","\"",":">>)))

\* datetime.isoformat() of a UTC time, the time counted in whole units
isoformat(now) == str(now) \o <<"+","0","0",":","0","0">>

\* the number a run of decimal digits writes
RECURSIVE int_of(_)
int_of(digits) ==
    IF digits = <<>> THEN 0
    ELSE LET last == digits[Len(digits)]
             d == CHOOSE v \in 0..9 : str(v) = <<last>>
         IN  10 * int_of(SubSeq(digits, 1, Len(digits) - 1)) + d

\* datetime.fromisoformat(text), for the text of a row
fromisoformat(t) == int_of(SubSeq(t, 1, Len(t) - Len(<<"+","0","0",":","0","0">>)))

\* a plausible slip: INTEGER PRIMARY KEY without AUTOINCREMENT, one more
\* than the largest id the table holds now
next_rowid_of_table(table, seq) ==
    LET ids == { table[k].id : k \in 1..Len(table) } \cup { 0 }
    IN  (CHOOSE x \in ids : \A y \in ids : y <= x) + 1

\* the id AUTOINCREMENT gives the next row: one more than the largest id
\* the table has ever held
next_rowid(table, seq) ==
    LET ids == { table[k].id : k \in 1..Len(table) } \cup { seq }
    IN  (CHOOSE x \in ids : \A y \in ids : y <= x) + 1

\* INSERT INTO searches (topic, created_at, summary) VALUES (?, ?, ?)
insert(table, seq, topic, created_at, summary_json) ==
    Append(table, [id |-> next_rowid(table, seq), topic |-> topic,
                   created_at |-> created_at, summary |-> summary_json])

\* save: the table and the sequence afterwards, and the row id returned
save(table, seq, topic, s, now) ==
    [rows |-> insert(table, seq, topic, isoformat(now), model_dump_json(s)),
     sqlite_sequence |-> next_rowid(table, seq),
     result |-> next_rowid(table, seq)]

\* the rows by descending id
RECURSIVE order_by_id_desc(_)
order_by_id_desc(table) ==
    IF table = <<>> THEN <<>>
    ELSE LET top == CHOOSE k \in 1..Len(table) : \A j \in 1..Len(table) : table[j].id <= table[k].id
         IN  <<table[top]>>
                 \o order_by_id_desc(SelectSeq(table, LAMBDA r : r.id # table[top].id))

\* LIMIT ?: a negative limit is no limit
limited(table, limit) == IF limit < 0 THEN table ELSE Slice(table, limit)

\* HistoryEntry(id=row["id"], topic=row["topic"],
\*              created_at=datetime.fromisoformat(row["created_at"]), summary=summary)
HistoryEntry(row, s) ==
    [id |-> row.id, topic |-> row.topic, created_at |-> fromisoformat(row.created_at),
     summary |-> s]

\* for row in rows: the entry appended, a row that does not validate skipped
RECURSIVE entries_loop(_, _)
entries_loop(selected, entries) ==
    IF selected = <<>> THEN entries
    ELSE LET validated == model_validate_json(Head(selected).summary)
         IN  entries_loop(Tail(selected),
                          IF validated.ok
                          THEN Append(entries, HistoryEntry(Head(selected), validated.value))
                          ELSE entries)

get_all(table, limit) ==
    [result |-> entries_loop(limited(order_by_id_desc(table), limit), <<>>),
     error |-> "none"]

\* get_by_id: no entry for no row, the entry of the row, or the exception
\* of a row that does not validate
get_by_id(table, entry_id) ==
    LET found == SelectSeq(table, LAMBDA r : r.id = entry_id)
        validated == model_validate_json(found[1].summary)
    IN  IF found = <<>> THEN [result |-> <<>>, error |-> "none"]
        ELSE IF ~validated.ok
        THEN [result |-> <<>>, error |-> "ValidationError"]
        ELSE [result |-> <<HistoryEntry(found[1], validated.value)>>, error |-> "none"]

\* delete: the table afterwards, and whether a row was deleted
delete(table, entry_id) ==
    [rows |-> SelectSeq(table, LAMBDA r : r.id # entry_id),
     result |-> Len(SelectSeq(table, LAMBDA r : r.id = entry_id)) > 0]

(***************************************************************************)
(* SpecHistory: up to MaxOps save and delete calls on a store that init_db *)
(* has created, with get_by_id and get_all calls between them.  calls      *)
(* keeps the save and delete calls made, with what they returned.          *)
(***************************************************************************)
\* a summary with characters JSON escapes, and one with empty fields
QuotedSummary ==
    TopicSummary(<<"a","i">>, <<"\"","h","i","\"">>, << <<"k">>, <<"\\">> >>, <<>>, <<>>,
                 << SourceRef(<<"T">>, <<"u">>, <<"\n">>) >>)

BareSummary == TopicSummary(<<"g","o">>, <<>>, <<>>, <<>>, <<"g">>, <<>>)

\* the topic, the summary and the time of a save
SaveInputs ==
    { << <<"a","i">>, QuotedSummary, 5 >>,
      << <<"g","o">>, BareSummary, 5 >>,
      << <<"g","o">>, QuotedSummary, 12 >> }

StoreCall(op, id, topic, s, result) ==
    [op |-> op, id |-> id, topic |-> topic, summary |-> s, result |-> result]

Returned(op, arg, result, err) == [op |-> op, arg |-> arg, result |-> result, error |-> err]

InitHistory ==
    /\ pc = "open"
    /\ fn = "history"
    /\ rows = <<>>
    /\ sqlite_sequence = 0
    /\ returned = <<>>
    /\ calls = <<>>
    /\ InitNoWeb
    /\ InitNoSummary
    /\ results = <<>>
    /\ time_range = None
    /\ lens = "general"
    /\ max_search_results = 0
    /\ _client = "None"
    /\ events = <<>>
    /\ sources = <<>>
    /\ text_parts = <<>>
    /\ yielded = <<>>
    /\ error = "none"
    /\ response = <<>>
    /\ unique = <<>>
    /\ intent = "exploratory"
    /\ max_results = 0
    /\ grouped = <<>>
    /\ sections = <<>>
    /\ resections = <<>>
    /\ query = <<>>
    /\ answer = None
    /\ url = <<>>
    /\ content_type = "unknown"

historyFrame == <<pc, results, unique, aggVars, textVars, urlVars, fn, time_range, lens,
                  max_search_results, _client, events, sources, text_parts, yielded, error,
                  response, sumVars, webVars>>

Save ==
    /\ pc = "open"
    /\ Len(calls) < MaxOps
    /\ \E x \in SaveInputs :
           LET out == save(rows, sqlite_sequence, x[1], x[2], x[3])
           IN  /\ rows' = out.rows
               /\ sqlite_sequence' = out.sqlite_sequence
               /\ returned' = << Returned("save", x[1], out.result, "none") >>
               /\ calls' = Append(calls, StoreCall("save", out.result, x[1], x[2], TRUE))
    /\ UNCHANGED historyFrame

Delete ==
    /\ pc = "open"
    /\ Len(calls) < MaxOps
    /\ \E entry_id \in 1..MaxOps :
           LET out == delete(rows, entry_id)
           IN  /\ rows' = out.rows
               /\ returned' = << Returned("delete", entry_id, out.result, "none") >>
               /\ calls' = Append(calls, StoreCall("delete", entry_id, <<>>, <<>>, out.result))
    /\ UNCHANGED <<sqlite_sequence, historyFrame>>

GetById ==
    /\ pc = "open"
    /\ \E entry_id \in 1..MaxOps :
           LET out == get_by_id(rows, entry_id)
           IN  returned' = << Returned("get_by_id", entry_id, out.result, out.error) >>
    /\ UNCHANGED <<rows, sqlite_sequence, calls, historyFrame>>

GetAll ==
    /\ pc = "open"
    /\ \E limit \in (-1)..MaxLimit :
           LET out == get_all(rows, limit)
           IN  returned' = << Returned("get_all", limit, out.result, out.error) >>
    /\ UNCHANGED <<rows, sqlite_sequence, calls, historyFrame>>

NextHistory == Save \/ Delete \/ GetById \/ GetAll

SpecHistory == InitHistory /\ [][NextHistory]_vars

(***************************************************************************)
(* web/app.py: search_api, one request from its JSON body to the response  *)
(* returned.  The search is run event by event as in SpecStream; the       *)
(* history database is there and no statement of the handler touches it.   *)
(***************************************************************************)
MaxApiEvents == 3   \* most events the stream delivers to one request

\* the JSON body: what get_json(silent=True) returns (None, a dict or a
\* list), the keys of the dict, and the query as a string, a number or null
Request(body, has, query_type, q, tr) ==
    [body |-> body, has |-> has, query_type |-> query_type, query |-> q, time_range |-> tr]

\* jsonify({"error": ...}), status
ErrorResponse(status, message) == [status |-> status, error |-> message, body |-> <<>>]

\* lines 111-119: the response returned before the search, or the query and
\* time range the search is run with; an exception no statement catches is
\* answered by Flask with status 500
search_api_checks(data) ==
    IF data.body = "None" \/ (data.body = "dict" /\ data.has = {})
    THEN [go |-> FALSE, error |-> "none", query |-> <<>>, time_range |-> None,
          response |-> ErrorResponse(400, "query is required")]
    ELSE IF data.body = "list"
    THEN [go |-> FALSE, error |-> "AttributeError", query |-> <<>>, time_range |-> None,
          response |-> ErrorResponse(500, "Internal Server Error")]
    ELSE IF "query" \notin data.has \/ data.query_type = "null"
            \/ (data.query_type = "str" /\ data.query = <<>>)
    THEN [go |-> FALSE, error |-> "none", query |-> <<>>, time_range |-> None,
          response |-> ErrorResponse(400, "query is required")]
    ELSE IF data.query_type # "str"
    THEN [go |-> FALSE, error |-> "AttributeError", query |-> <<>>, time_range |-> None,
          response |-> ErrorResponse(500, "Internal Server Error")]
    ELSE LET checked(q, tr) ==
                 IF q = <<>>
                 THEN [go |-> FALSE, error |-> "none", query |-> q, time_range |-> tr,
                       response |-> ErrorResponse(400, "query must not be blank")]
                 ELSE [go |-> TRUE, error |-> "none", query |-> q, time_range |-> tr,
                       response |-> ErrorResponse(0, "")]
         IN  checked(strip(data.query),
                     IF "time_range" \in data.has /\ data.time_range # <<>>
                     THEN data.time_range ELSE parse_time_range(strip(data.query)))

\* a plausible slip: search returns every result it has read
SearchResponseUncut(q, tr, rs, parts, cap) ==
    [query |-> strip(q), intent |-> detect_intent(strip(q)),
     time_range |-> detected_time_range(strip(q), tr),
     results |-> rs, raw_text |-> concat(parts)]

\* SearchResponse(query=query, intent=intent, time_range=detected_time_range,
\*                results=results[:max_search_results], raw_text="".join(text_parts))
SearchResponse(q, tr, rs, parts, cap) ==
    [query |-> strip(q), intent |-> detect_intent(strip(q)),
     time_range |-> detected_time_range(strip(q), tr),
     results |-> Slice(rs, cap), raw_text |-> concat(parts)]

\* for result in response.results: result.content_type = classify_result(result).value
classified(rs) ==
    [i \in 1..Len(rs) |-> [rs[i] EXCEPT !.content_type = classify_result(rs[i])]]

\* CONTENT_TYPE_LABELS.get(ContentType(section_type), section_type), by key
label(section_type) ==
    IF section_type \in { "papers", "news", "discussions", "videos", "code", "unknown" }
    THEN section_type ELSE "ValueError"

\* one result of a section as it is serialised; ai_summary and
\* relevance_explanation are the empty defaults of SearchResult
result_json(r) ==
    [title |-> r.title, url |-> r.url, snippet |-> r.snippet,
     ai_summary |-> r.snippet, source |-> r.source,
     published_date |-> r.published_date, relevance_explanation |-> <<>>]

sections_json(secs) ==
    [k \in 1..Len(secs) |->
        [type |-> secs[k][1], label |-> label(secs[k][1]),
         results |-> [i \in 1..Len(secs[k][2]) |-> result_json(secs[k][2][i])]]]

\* jsonify({"query": ..., "intent": ..., "time_range": ..., "summary": ...,
\*          "sections": ...}), status 200
OkResponse(q, resp, s, secs) ==
    [status |-> 200, error |-> "",
     body |-> << [query |-> q, intent |-> resp.intent, time_range |-> resp.time_range,
                  summary |-> s, sections |-> sections_json(secs)] >>]

\* except ValueError -> 400 with str(exc); except Exception -> 500
failure_response(exception) ==
    IF exception = "ValueError"
    THEN ErrorResponse(400, "str(exc)")
    ELSE ErrorResponse(500, "Search failed")

(***************************************************************************)
(* SpecApi: one request to search_api.  The stream delivers up to          *)
(* MaxApiEvents events and ends, or fails with an exception of the SDK: an *)
(* APIError, or a ValueError such as the JSONDecodeError of an event that  *)
(* is no JSON.                                                             *)
(***************************************************************************)
ApiRequests ==
    { Request("None", {}, "null", <<>>, <<>>),
      Request("dict", {}, "null", <<>>, <<>>),
      Request("list", {}, "null", <<>>, <<>>),
      Request("dict", { "time_range" }, "null", <<>>, <<"w","e","e","k">>),
      Request("dict", { "query" }, "null", <<>>, <<>>),
      Request("dict", { "query" }, "str", <<>>, <<>>),
      Request("dict", { "query" }, "str", <<" ", "\n">>, <<>>),
      Request("dict", { "query" }, "int", <<>>, <<>>),
      Request("dict", { "query" }, "str", <<"a","i">>, <<>>),
      Request("dict", { "query", "time_range" }, "str", <<" ","a","r","x","i","v"," ">>, <<"w","e","e","k">>) }

\* sources: one, its twin by letter case and trailing slash, one without a
\* URL, and two more of other hosts
SourceOne == Item("web_search_result", <<"O">>, <<"h","t","t","p","s",":","/","/","a","r","x","i","v",".","o","r","g","/","a">>, <<>>)
SourceTwin == Item("web_search_result", <<"T">>, <<"h","t","t","p","s",":","/","/","A","R","X","I","V",".","o","r","g","/","a","/">>, <<>>)
SourceBare == Item("web_search_result", <<"B">>, None, None)
SourceTwo == Item("web_search_result", <<"P">>, <<"h","t","t","p","s",":","/","/","x",".","o","r","g","/","p">>, <<>>)
SourceThree == Item("web_search_result", <<"G">>, <<"h","t","t","p","s",":","/","/","g","i","t","h","u","b",".","c","o","m","/","g">>, <<>>)

ApiEvents ==
    { ToolResult(TRUE, <<SourceOne>>),
      ToolResult(TRUE, <<SourceTwin, SourceBare>>),
      ToolResult(TRUE, <<SourceTwo>>),
      ToolResult(TRUE, <<SourceThree, SourceOne>>),
      Delta("text_delta", <<"o", "k">>) }

\* the exceptions a failing stream raises
StreamExceptions == { "APIError", "ValueError" }

\* what the summary request answers
ApiSummaryAnswers ==
    { Answer("raises", {}, <<>>, <<>>, <<>>, <<>>),
      Answer("object", { "overview", "key_themes", "notable_trends", "top_entities" },
             <<"s","u","m">>, << <<"t">> >>, <<>>, << <<"e">> >>) }

InitApi ==
    /\ pc = "received"
    /\ fn = "search_api"
    /\ request \in ApiRequests
    /\ max_search_results \in 0..MaxCap
    /\ _client \in { "None", "Anthropic" }
    /\ summarizer_client = "None"
    /\ http = <<>>
    /\ runs = <<>>
    /\ InitNoStore
    /\ InitNoSummary
    /\ query = <<>>
    /\ time_range = None
    /\ lens = "general"
    /\ events = <<>>
    /\ results = <<>>
    /\ sources = <<>>
    /\ text_parts = <<>>
    /\ yielded = <<>>
    /\ calls = <<>>
    /\ error = "none"
    /\ response = <<>>
    /\ unique = <<>>
    /\ intent = "exploratory"
    /\ max_results = 0
    /\ grouped = <<>>
    /\ sections = <<>>
    /\ resections = <<>>
    /\ answer = None
    /\ url = <<>>
    /\ content_type = "unknown"

apiFrame == <<unique, max_results, grouped, resections, answer, urlVars, fn, lens,
              max_search_results, sources, yielded, raw_text, storeVars, request, runs>>

\* lines 111-119
ApiChecks ==
    /\ pc = "received"
    /\ \E out \in { search_api_checks(request) } :
           /\ query' = out.query
           /\ time_range' = out.time_range
           /\ error' = out.error
           /\ IF out.go
              THEN pc' = "search" /\ UNCHANGED http
              ELSE pc' = "done" /\ http' = Append(http, out.response)
    /\ UNCHANGED <<results, intent, sections, _client, events, text_parts, calls, response,
                   api, summary, summarizer_client, apiFrame>>

\* _orchestrator.search up to the opening of the stream
ApiSearchStarts ==
    /\ pc = "search"
    /\ _client' = "Anthropic"
    /\ calls' = calls
          \o (IF _client = "None" THEN <<ClientCall>> ELSE <<>>)
          \o << StreamCall(detect_intent(strip(query)),
                           user_message(strip(query),
                                        detected_time_range(strip(query), time_range))) >>
    /\ pc' = "streaming"
    /\ UNCHANGED <<results, intent, sections, query, time_range, events, text_parts, error,
                   response, api, summary, summarizer_client, http, apiFrame>>

ApiOnEvent ==
    /\ pc = "streaming"
    /\ fn = "search_api"
    /\ Len(events) < MaxApiEvents
    /\ \E ev \in ApiEvents :
          LET st == search_event([results |-> results, text_parts |-> text_parts], ev)
          IN  /\ events' = Append(events, ev)
              /\ results' = st.results
              /\ text_parts' = st.text_parts
    /\ UNCHANGED <<pc, intent, sections, query, time_range, _client, calls, error, response,
                   api, summary, summarizer_client, http, apiFrame>>

\* the stream fails: the exception leaves search and is answered by one of
\* the two except clauses
ApiStreamFails ==
    /\ pc = "streaming"
    /\ fn = "search_api"
    /\ \E exception \in StreamExceptions :
          /\ error' = exception
          /\ http' = Append(http, failure_response(exception))
    /\ pc' = "done"
    /\ UNCHANGED <<results, intent, sections, query, time_range, _client, events,
                   text_parts, calls, response, api, summary, summarizer_client, apiFrame>>

\* the stream ends: search returns, the results are classified and aggregated
ApiSearchReturns ==
    /\ pc = "streaming"
    /\ fn = "search_api"
    /\ \E resp \in { SearchResponse(query, time_range, results, text_parts, max_search_results) } :
          \E rs \in { classified(resp.results) } :
             /\ response' = << [resp EXCEPT !.results = rs] >>
             /\ intent' = resp.intent
             /\ sections' = aggregate(rs, resp.intent, max_search_results)
    /\ pc' = "summary"
    /\ UNCHANGED <<results, query, time_range, _client, events, text_parts, calls, error,
                   api, summary, summarizer_client, http, apiFrame>>

\* the executive summary, and the response serialised and returned
ApiSummarizes ==
    /\ pc = "summary"
    /\ \E a \in ApiSummaryAnswers :
          LET narrative == IF response[1].raw_text = <<>> THEN None ELSE response[1].raw_text
              out == generate_executive_summary(query, response[1].results,
                                                response[1].intent, narrative, a,
                                                summarizer_client)
          IN  /\ api' = a
              /\ summary' = <<out.summary>>
              /\ calls' = calls \o out.calls
              /\ summarizer_client' = out.client
              /\ http' = Append(http, OkResponse(query, response[1], out.summary, sections))
    /\ pc' = "done"
    /\ UNCHANGED <<results, intent, sections, query, time_range, _client, events,
                   text_parts, error, response, apiFrame>>

NextApi ==
    \/ ApiChecks
    \/ ApiSearchStarts
    \/ ApiOnEvent
    \/ ApiStreamFails
    \/ ApiSearchReturns
    \/ ApiSummarizes

SpecApi == InitApi /\ [][NextApi]_vars

(***************************************************************************)
(* web/app.py: two requests served at once by the threads of the server.   *)
(* _orchestrator and _summarizer are objects of the module, one of each    *)
(* for all requests; results and text_parts are locals of search.  The     *)
(* client property is three steps a thread can be interrupted between: the *)
(* test of self._client, the construction and assignment, and the read of  *)
(* self._client that is returned.                                          *)
(***************************************************************************)
MaxRunEvents == 2   \* most events the stream delivers to one of the requests

Runs == { 1, 2 }

\* the Anthropic object a request constructs
ClientBuiltBy(r) == IF r = 1 THEN "Anthropic1" ELSE "Anthropic2"

RunQueries == << <<"a","i">>, <<"g","o">> >>

RunEvents == { ToolResult(TRUE, <<SourceOne, SourceTwo>>), Delta("text_delta", <<"o", "k">>) }

\* the locals of a request that has not started its search
RunStart(r) ==
    [pc |-> "start", query |-> RunQueries[r], events |-> <<>>, results |-> <<>>,
     text_parts |-> <<>>, client |-> "None", response |-> <<>>,
     summarizer |-> "None", summary |-> <<>>]

RunCall(op, r, client) == [op |-> op, run |-> r, client |-> client]

\* a plausible slip: results and text_parts are kept on the orchestrator,
\* one pair for all requests
run_event_shared(rs, r, ev) ==
    [x \in DOMAIN rs |->
        LET st == search_event([results |-> rs[x].results,
                                text_parts |-> rs[x].text_parts], ev)
        IN  [rs[x] EXCEPT !.events = IF x = r THEN Append(@, ev) ELSE @,
                          !.results = st.results, !.text_parts = st.text_parts]]

\* request r reads an event of its stream into its own results and text_parts
run_event(rs, r, ev) ==
    LET st == search_event([results |-> rs[r].results,
                            text_parts |-> rs[r].text_parts], ev)
    IN  [rs EXCEPT ![r] = [@ EXCEPT !.events = Append(@, ev),
                                    !.results = st.results,
                                    !.text_parts = st.text_parts]]

InitConcurrent ==
    /\ pc = "serving"
    /\ fn = "search_api"
    /\ runs = [r \in Runs |-> RunStart(r)]
    /\ _client = "None"
    /\ summarizer_client = "None"
    /\ max_search_results = DefaultMaxResults
    /\ calls = <<>>
    /\ request = None
    /\ http = <<>>
    /\ InitNoStore
    /\ InitNoSummary
    /\ query = <<>>
    /\ time_range = None
    /\ lens = "general"
    /\ events = <<>>
    /\ results = <<>>
    /\ sources = <<>>
    /\ text_parts = <<>>
    /\ yielded = <<>>
    /\ error = "none"
    /\ response = <<>>
    /\ unique = <<>>
    /\ intent = "exploratory"
    /\ max_results = 0
    /\ grouped = <<>>
    /\ sections = <<>>
    /\ resections = <<>>
    /\ answer = None
    /\ url = <<>>
    /\ content_type = "unknown"

concurrentFrame == <<pc, results, unique, aggVars, textVars, urlVars, fn, time_range, lens,
                     max_search_results, events, sources, text_parts, yielded, error,
                     response, sumVars, storeVars, request, http>>

\* if self._client is None
RunChecksClient ==
    /\ \E r \in Runs :
          /\ runs[r].pc = "start"
          /\ runs' = [runs EXCEPT ![r].pc = IF _client = "None" THEN "build" ELSE "take"]
    /\ UNCHANGED <<_client, summarizer_client, calls, concurrentFrame>>

\* self._client = anthropic.Anthropic(...)
RunBuildsClient ==
    /\ \E r \in Runs :
          /\ runs[r].pc = "build"
          /\ _client' = ClientBuiltBy(r)
          /\ calls' = Append(calls, RunCall("Anthropic", r, ClientBuiltBy(r)))
          /\ runs' = [runs EXCEPT ![r].pc = "take"]
    /\ UNCHANGED <<summarizer_client, concurrentFrame>>

\* return self._client, and the stream opened on it
RunOpensStream ==
    /\ \E r \in Runs :
          /\ runs[r].pc = "take"
          /\ calls' = Append(calls, RunCall("stream", r, _client))
          /\ runs' = [runs EXCEPT ![r].pc = "streaming", ![r].client = _client]
    /\ UNCHANGED <<_client, summarizer_client, concurrentFrame>>

RunOnEvent ==
    /\ \E r \in Runs :
          /\ runs[r].pc = "streaming"
          /\ Len(runs[r].events) < MaxRunEvents
          /\ \E ev \in RunEvents : runs' = run_event(runs, r, ev)
    /\ UNCHANGED <<_client, summarizer_client, calls, concurrentFrame>>

\* the stream ends: search returns and the results are classified
RunSearchReturns ==
    /\ \E r \in Runs :
          /\ runs[r].pc = "streaming"
          /\ \E resp \in { SearchResponse(runs[r].query, None, runs[r].results,
                                          runs[r].text_parts, max_search_results) } :
                runs' = [runs EXCEPT ![r].pc = "summary",
                                     ![r].response =
                                         << [resp EXCEPT !.results = classified(resp.results)] >>]
    /\ UNCHANGED <<_client, summarizer_client, calls, concurrentFrame>>

\* generate_executive_summary up to the test of the summarizer's _client:
\* without results or with a narrative it returns without a client
RunSummaryStarts ==
    /\ \E r \in Runs :
          /\ runs[r].pc = "summary"
          /\ LET resp == runs[r].response[1]
                 narrative == IF resp.raw_text = <<>> THEN None ELSE resp.raw_text
                 out == generate_executive_summary(runs[r].query, resp.results, resp.intent,
                                                   narrative, Answer("raises", {}, <<>>, <<>>, <<>>, <<>>),
                                                   "Anthropic")
             IN  IF out.calls = <<>>
                 THEN runs' = [runs EXCEPT ![r].pc = "done", ![r].summary = <<out.summary>>]
                 ELSE runs' = [runs EXCEPT ![r].pc = IF summarizer_client = "None"
                                                     THEN "summary_build" ELSE "summary_take"]
    /\ UNCHANGED <<_client, summarizer_client, calls, concurrentFrame>>

RunBuildsSummarizerClient ==
    /\ \E r \in Runs :
          /\ runs[r].pc = "summary_build"
          /\ summarizer_client' = ClientBuiltBy(r)
          /\ calls' = Append(calls, RunCall("Anthropic", r, ClientBuiltBy(r)))
          /\ runs' = [runs EXCEPT ![r].pc = "summary_take"]
    /\ UNCHANGED <<_client, concurrentFrame>>

\* return self._client, the request made on it and the summary of its answer
RunSummarizes ==
    /\ \E r \in Runs :
          /\ runs[r].pc = "summary_take"
          /\ \E a \in ApiSummaryAnswers :
                LET resp == runs[r].response[1]
                    out == generate_executive_summary(runs[r].query, resp.results,
                                                      resp.intent, None, a, "Anthropic")
                IN  runs' = [runs EXCEPT ![r].pc = "done",
                                         ![r].summarizer = summarizer_client,
                                         ![r].summary = <<out.summary>>]
          /\ calls' = Append(calls, RunCall("create", r, summarizer_client))
    /\ UNCHANGED <<_client, summarizer_client, concurrentFrame>>

NextConcurrent ==
    \/ RunChecksClient
    \/ RunBuildsClient
    \/ RunOpensStream
    \/ RunOnEvent
    \/ RunSearchReturns
    \/ RunSummaryStarts
    \/ RunBuildsSummarizerClient
    \/ RunSummarizes

SpecConcurrent == InitConcurrent /\ [][NextConcurrent]_vars

(***************************************************************************)
(* What the claims about deduplicate speak of, stated without the loop.    *)
(***************************************************************************)
\* u without all of its trailing slashes, lower-cased
Canon(u) ==
    LET v == IF u = None THEN <<>> ELSE u
        m == CHOOSE k \in 0..Len(v) :
                /\ k = 0 \/ v[k] # "/"
                /\ \A l \in (k + 1)..Len(v) : v[l] = "/"
    IN  [i \in 1..m |-> LowerChar(v[i])]

\* u without at most one trailing slash, lower-cased
CanonOneSlash(u) ==
    LET v == IF u = None THEN <<>> ELSE u
        m == IF v # <<>> /\ v[Len(v)] = "/" THEN Len(v) - 1 ELSE Len(v)
    IN  [i \in 1..m |-> LowerChar(v[i])]

\* empty, missing or whitespace only
Blank(u) == u = None \/ \A i \in 1..Len(u) : u[i] \in {" ", "\t", "\n"}

Kept(j) == \E k \in 1..Len(unique) : unique[k].id = j

\* C2: the output of deduplicate has no two elements with equal normalised
\* URLs, is a subsequence of the input, and each element it keeps is the
\* first input element with its normalised URL.
C2_DedupFirstOccurrences ==
    pc = "deduplicated" =>
        /\ \A k, l \in 1..Len(unique) :
              k < l => Canon(unique[k].url) # Canon(unique[l].url)
        /\ \A k \in 1..Len(unique) :
              /\ unique[k].id \in 1..Len(results)
              /\ unique[k] = results[unique[k].id]
        /\ \A k, l \in 1..Len(unique) : k < l => unique[k].id < unique[l].id
        /\ \A k \in 1..Len(unique) : \A j \in 1..(unique[k].id - 1) :
              Canon(results[j].url) # Canon(unique[k].url)
        /\ \A j \in 1..Len(results) :
              (/\ Canon(results[j].url) # <<>>
               /\ \A i \in 1..(j - 1) : Canon(results[i].url) # Canon(results[j].url))
              => Kept(j)

C2_Witness ==
    /\ pc = "deduplicated"
    /\ Len(unique) = 2
    /\ Len(results) = 3
    /\ Canon(results[1].url) = Canon(results[2].url)
    /\ results[1].url # results[2].url
    /\ Kept(1) /\ Kept(3)

\* C3 as stated: two results are duplicates exactly when their URLs are
\* equal after trimming one trailing slash and lower-casing.
C3_OneSlashDuplicates ==
    pc = "deduplicated" =>
        \A j \in 1..Len(results) :
            Canon(results[j].url) # <<>> =>
                (Kept(j) <=> \A i \in 1..(j - 1) :
                    CanonOneSlash(results[i].url) # CanonOneSlash(results[j].url))

\* C3 amended: two results are duplicates exactly when their URLs are equal
\* after removing all trailing slashes and lower-casing, so "a//" after "a"
\* is dropped.
C3_AllSlashesDuplicates ==
    pc = "deduplicated" =>
        \A j \in 1..Len(results) :
            Canon(results[j].url) # <<>> =>
                (Kept(j) <=> \A i \in 1..(j - 1) :
                    Canon(results[i].url) # Canon(results[j].url))

C3_Witness ==
    /\ pc = "deduplicated"
    /\ Len(results) = 2
    /\ results[1].url = <<"a">>
    /\ results[2].url = <<"a", "/", "/">>
    /\ Kept(1) /\ ~Kept(2)

\* C4 as stated: every result with an empty or whitespace-only URL is
\* dropped, and a result with any other URL is dropped only as a later
\* duplicate.
C4_BlankDropped ==
    pc = "deduplicated" =>
        \A j \in 1..Len(results) :
            /\ Blank(results[j].url) => ~Kept(j)
            /\ (~Blank(results[j].url) /\ ~Kept(j)) =>
                  \E i \in 1..(j - 1) :
                      Kept(i) /\ Canon(results[i].url) = Canon(results[j].url)

\* C4 amended: every result whose URL is empty once its trailing slashes are
\* removed (empty, missing, slashes only) is dropped; a result with any other
\* URL, a whitespace-only one included, is dropped only as a later duplicate.
C4_EmptyAfterStripDropped ==
    pc = "deduplicated" =>
        \A j \in 1..Len(results) :
            /\ Canon(results[j].url) = <<>> => ~Kept(j)
            /\ (Canon(results[j].url) # <<>> /\ ~Kept(j)) =>
                  \E i \in 1..(j - 1) :
                      Kept(i) /\ Canon(results[i].url) = Canon(results[j].url)

C4_Witness ==
    /\ pc = "deduplicated"
    /\ \E j \in 1..Len(results) : results[j].url = <<" ">> /\ Kept(j)
    /\ \E j \in 1..Len(results) : results[j].url = <<"/">> /\ ~Kept(j)
    /\ \E j \in 1..Len(results) : results[j].url = <<>> /\ ~Kept(j)

(***************************************************************************)
(* What the claims about the classifier and the end-to-end scenario speak  *)
(* of.                                                                     *)
(***************************************************************************)
\* the tags of the scenario: the two paper results, the discussion and news
TaggedAsMeant ==
    /\ Cardinality({ i \in 1..Len(results) : results[i].content_type = "papers" }) = 2
    /\ Cardinality({ i \in 1..Len(results) : results[i].content_type = "discussions" }) = 1
    /\ Cardinality({ i \in 1..Len(results) : results[i].content_type = "news" }) = 1

\* C6 as stated: the scenario aggregated with intent academic and
\* max_results 10 gives exactly two non-empty groups, papers before
\* discussions before news, each of exactly one result.
C6_TwoGroupsDiscussionsBeforeNews ==
    (pc = "aggregated" /\ TaggedAsMeant) =>
        /\ Len(sections) = 2
        /\ \A k \in 1..Len(sections) : Len(sections[k][2]) = 1
        /\ \A k, l \in 1..Len(sections) :
              ((sections[k][1] = "papers" /\ sections[l][1] \in {"discussions", "news"})
                  \/ (sections[k][1] = "discussions" /\ sections[l][1] = "news"))
              => k < l

\* C6 amended: when the classifier tags the paper results papers, the
\* discussion result discussions and the remaining result news, aggregate
\* with intent academic and max_results 10 gives exactly three groups, in
\* the order papers, news, discussions, each of exactly one result, the
\* later of the two paper results removed.
C6_ThreeGroupsNewsBeforeDiscussions ==
    (pc = "aggregated" /\ TaggedAsMeant) =>
        /\ Len(sections) = 3
        /\ SectionNames = <<"papers", "news", "discussions">>
        /\ \A k \in 1..3 : Len(sections[k][2]) = 1
        /\ \A i \in 1..Len(results) :
              results[i].content_type = "papers" =>
                  (sections[1][2][1] = results[i]
                      <=> \A j \in 1..(i - 1) : results[j].content_type # "papers")

C6_Witness ==
    /\ pc = "aggregated"
    /\ TaggedAsMeant
    /\ results[1].content_type = "discussions"
    /\ results[2].content_type = "papers"
    /\ results[4].content_type = "papers"
    /\ SectionNames = <<"papers", "news", "discussions">>
    /\ sections[1][2] = <<results[2]>>

\* the host without a leading "www.", nothing else removed
StripDomainPrefix(h) ==
    IF StartsWithAt(h, 1, <<"w", "w", "w", ".">>) THEN SubSeq(h, 5, Len(h)) ELSE h

\* the content type of the allow-list host h is in, news when in none
ListedAs(h) ==
    CASE h \in _PAPER_DOMAINS -> "papers"
      [] h \in _DISCUSSION_DOMAINS -> "discussions"
      [] h \in _VIDEO_DOMAINS -> "videos"
      [] h \in _CODE_DOMAINS -> "code"
      [] OTHER -> "news"

\* C10: classify_url removes exactly a leading "www." from the host and
\* looks the rest up in the papers, discussions, videos and code lists in
\* that order; a host in none of them after that removal is news. Stated
\* for the hosts that have a character other than "w" and ".".
C10_OnlyWwwPrefixRemoved ==
    (/\ pc = "classified"
     /\ \E k \in 1..Len(netloc(url)) : netloc(url)[k] \notin {"w", "W", "."})
        => content_type = ListedAs(StripDomainPrefix(lower(netloc(url))))

\* the text patterns in the order classify_by_text tries them
TextGroups == <<"papers", "discussions", "videos", "code">>
TextPatterns == <<_PAPER_RE, _DISCUSSION_RE, _VIDEO_RE, _CODE_RE>>

\* the text groups that match the title and snippet of the classified result
MatchingGroups ==
    LET text == (IF results[1].title = None THEN <<>> ELSE results[1].title)
                    \o <<" ">> \o results[1].snippet
    IN  { k \in 1..4 : Search(TextPatterns[k], text) }

\* what classify_url says of the URL of the classified result
ByUrl == classify_url(IF results[1].url = None THEN <<>> ELSE results[1].url)

\* C13: classify_result consults the title and snippet exactly when
\* classify_url returned news: an allow-list hit and unknown are returned
\* whatever the text says; with news the result is the first matching text
\* group in the order papers, discussions, videos, code, news when none
\* matches.
C13_TextOnlyWhenUrlIsNews ==
    pc = "result_classified" =>
        /\ ByUrl # "news" => content_type = ByUrl
        /\ (ByUrl = "news" /\ MatchingGroups = {}) => content_type = "news"
        /\ (ByUrl = "news" /\ MatchingGroups # {}) =>
              \E k \in MatchingGroups :
                  /\ content_type = TextGroups[k]
                  /\ \A l \in MatchingGroups : k <= l

C13_Witness ==
    /\ pc = "result_classified"
    /\ ByUrl = "news"
    /\ MatchingGroups = {2, 3, 4}
    /\ content_type = "discussions"

\* C11: classify_url returns unknown only for a URL that is empty or has no
\* parseable hostname; a URL with a non-empty hostname in no allow-list is
\* news, the hostnames made of "w" and "." only (www, w.w) included.
C11_UnknownOnlyWithoutHostname ==
    (pc = "classified" /\ content_type = "unknown") =>
        \/ url = <<>>
        \/ netloc(url) = <<>>
        \/ RaisesValueError(url)

UpperChar(c) ==
    IF \E i \in 1..26 : LowerCase[i] = c
    THEN UpperCase[CHOOSE i \in 1..26 : LowerCase[i] = c]
    ELSE c

upper(s) == [i \in 1..Len(s) |-> UpperChar(s[i])]

\* the position of the hostname in u: what follows the "//" after the scheme
HostStart(u) == Len(u) - Len(AfterScheme(u)) + 3

\* u with w put in front of its hostname
WithPrefix(u, w) ==
    SubSeq(u, 1, HostStart(u) - 1) \o w \o SubSeq(u, HostStart(u), Len(u))

\* the URLs that differ from u by a trailing slash, by letter case or by a
\* leading "www." on the hostname only
Variants(u) ==
    { Append(u, "/"), lower(u), upper(u) }
        \cup (IF u[Len(u)] = "/" /\ Len(u) > 1 THEN { SubSeq(u, 1, Len(u) - 1) } ELSE {})
        \cup (IF netloc(u) # <<>>
              THEN { WithPrefix(u, <<"w", "w", "w", ".">>),
                     WithPrefix(u, <<"W", "W", "W", ".">>) }
              ELSE {})
        \cup (IF StartsWithAt(lower(netloc(u)), 1, <<"w", "w", "w", ".">>)
              THEN { SubSeq(u, 1, HostStart(u) - 1) \o SubSeq(u, HostStart(u) + 4, Len(u)) }
              ELSE {})

\* C12: for a non-empty URL, classify_url returns the same content type for
\* the URL and for every URL that differs from it only by a trailing slash,
\* by letter case or by a leading "www." on the hostname.
C12_SameTypeForVariants ==
    (pc = "classified" /\ url # <<>>) =>
        \A v \in Variants(url) : classify_url(v) = content_type

C12_Witness ==
    /\ pc = "classified"
    /\ url = <<"H","T","T","P",":","/","/","w","w","w",".","a","r","x","i","v",".","o","r","g","/">>
    /\ content_type = "papers"
    /\ <<"H","T","T","P",":","/","/","a","r","x","i","v",".","o","r","g","/">> \in Variants(url)
    /\ <<"h","t","t","p",":","/","/","w","w","w",".","a","r","x","i","v",".","o","r","g","/">> \in Variants(url)
    /\ <<"H","T","T","P",":","/","/","w","w","w",".","a","r","x","i","v",".","o","r","g">> \in Variants(url)
    /\ Cardinality(Variants(url)) >= 6

(***************************************************************************)
(* What the claims about detect_intent and parse_time_range speak of.      *)
(***************************************************************************)
\* the number of signals of the set that occur in the lower-cased query
Count(signals) ==
    Cardinality({ sig \in signals :
        \E i \in 1..Len(query) :
            /\ i + Len(sig) - 1 <= Len(query)
            /\ \A k \in 1..Len(sig) : LowerChar(query[i + k - 1]) = sig[k] })

CountOf(i) ==
    CASE i = "academic" -> Count(_ACADEMIC_SIGNALS)
      [] i = "tutorial" -> Count(_TUTORIAL_SIGNALS)
      [] i = "business" -> Count(_BUSINESS_SIGNALS)

IntentOrder == <<"academic", "tutorial", "business">>

\* C8: detect_intent returns exploratory when the three signal counts of the
\* lower-cased query are zero, otherwise the intent with the highest count,
\* the earliest of academic, tutorial, business among equals.
C8_HighestCountFirstInOrder ==
    pc = "detected" =>
        IF \A k \in 1..3 : CountOf(IntentOrder[k]) = 0
        THEN answer = "exploratory"
        ELSE \E k \in 1..3 :
                /\ answer = IntentOrder[k]
                /\ \A l \in 1..3 : CountOf(IntentOrder[l]) <= CountOf(IntentOrder[k])
                /\ \A l \in 1..(k - 1) : CountOf(IntentOrder[l]) < CountOf(IntentOrder[k])

C8_Witness ==
    /\ pc = "detected"
    /\ query = <<"T","u","t","o","r","i","a","l">> \o <<" ">> \o <<"A","R","X","I","V">>
                  \o <<" ">> \o <<"I","P","O">>
    /\ CountOf("academic") = 1 /\ CountOf("tutorial") = 1 /\ CountOf("business") = 1
    /\ answer = "academic"

AnyMatch(p) == \E i \in 1..Len(query) : MatchLen(p, query, i) > 0

FirstMatchAt(p) ==
    CHOOSE i \in 1..Len(query) :
        MatchLen(p, query, i) > 0 /\ \A k \in 1..(i - 1) : MatchLen(p, query, k) = 0

\* C9: parse_time_range returns the matched text of the first pattern, in
\* declared order, that matches anywhere in the query, also when a later
\* pattern matches at an earlier position, and None exactly when no pattern
\* matches.
C9_FirstPatternInDeclaredOrder ==
    pc = "parsed" =>
        /\ answer = None <=> \A p \in 1..NumPatterns : ~AnyMatch(p)
        /\ \A p \in 1..NumPatterns :
              (AnyMatch(p) /\ \A r \in 1..(p - 1) : ~AnyMatch(r)) =>
                  answer = [k \in 1..MatchLen(p, query, FirstMatchAt(p)) |->
                                query[FirstMatchAt(p) + k - 1]]

C9_Witness ==
    /\ pc = "parsed"
    /\ AnyMatch(4) /\ AnyMatch(2) /\ ~AnyMatch(1)
    /\ FirstMatchAt(4) < FirstMatchAt(2)
    /\ answer = <<"L","a","s","t"," ","6","0"," ","m","o","n","t","h","s">>

(***************************************************************************)
(* What the claims about search and research_streaming speak of, read off  *)
(* the events the stream has delivered.                                    *)
(***************************************************************************)
\* the input is empty or of whitespace only
BlankInput == \A k \in 1..Len(query) : query[k] \in { " ", "\t", "\n", "\r", "\f" }

\* C14: a blank query or topic is rejected with ValueError before any
\* external call: search and research_streaming construct no client, open
\* no stream, read no event, yield no event and return nothing for it.
C14_BlankRejectedBeforeAnyCall ==
    (fn \in { "search", "research_streaming" } /\ BlankInput) =>
        /\ calls = <<>>
        /\ events = <<>>
        /\ yielded = <<>>
        /\ response = <<>>
        /\ pc \in { "start", "raised" }
        /\ pc = "raised" => error = "ValueError"

C14_Witness ==
    /\ fn = "research_streaming"
    /\ query = <<"\n", " ">>
    /\ pc = "raised"
    /\ error = "ValueError"
    /\ calls = <<>>

\* the web sources of the events evs, in the order of the tool-result events
\* and of the items inside each
RECURSIVE Discovered(_)
Discovered(evs) ==
    IF evs = <<>> THEN <<>>
    ELSE Discovered(SubSeq(evs, 1, Len(evs) - 1))
            \o (LET ev == evs[Len(evs)]
                IN  IF /\ ev.type = "content_block_start"
                       /\ ev.block_type = "web_search_tool_result"
                       /\ ev.has_content
                    THEN SelectSeq(ev.content, LAMBDA it : it.type = "web_search_result")
                    ELSE <<>>)

\* the texts of the text deltas of the events evs, in order
RECURSIVE DeltaTexts(_)
DeltaTexts(evs) ==
    IF evs = <<>> THEN <<>>
    ELSE DeltaTexts(SubSeq(evs, 1, Len(evs) - 1))
            \o (LET ev == evs[Len(evs)]
                IN  IF ev.type = "content_block_delta" /\ ev.delta_type = "text_delta"
                    THEN <<ev.text>>
                    ELSE <<>>)

\* the payloads of the yielded events of one kind, in order
Payloads(kind) ==
    LET ys == SelectSeq(yielded, LAMBDA y : y.event = kind)
    IN  [i \in 1..Len(ys) |-> ys[i].payload]

\* C15 as stated: while the stream is read, the running result list never
\* holds more than the configured maximum, in search and in
\* research_streaming alike. Stated for a maximum of one result or more.
C15_RunningListWithinCap ==
    /\ (fn = "search" /\ max_search_results >= 1) => Len(results) <= max_search_results
    /\ fn = "research_streaming" => Len(sources) <= MaxSources

\* C15 amended: research_streaming's running source list never holds more
\* than its fixed limit of 5, a source arriving at the limit being neither
\* appended nor yielded; search's running list holds every source that has
\* arrived, and the list it returns holds no more than max_search_results.
C15_ReturnedListWithinCap ==
    /\ fn = "research_streaming" =>
          /\ Len(sources) <= MaxSources
          /\ Len(Payloads("source")) <= MaxSources
          /\ Len(sources) = Len(Discovered(events)) \/ Len(sources) = MaxSources
    /\ fn = "search" =>
          /\ Len(results) = Len(Discovered(events))
          /\ pc = "returned" => Len(response[1].results) <= max_search_results

C15_Witness ==
    /\ fn = "research_streaming"
    /\ pc = "streaming"
    /\ Len(Discovered(events)) = 6
    /\ Len(sources) = 5
    /\ Len(Payloads("source")) = 5

\* C16: when the stream ends normally, the list search returns is exactly
\* the first max_search_results web sources in discovery order (all of them
\* when there are fewer): none re-ordered, duplicated or invented.
C16_FirstSourcesInDiscoveryOrder ==
    (fn = "search" /\ pc = "returned") =>
        LET d == Discovered(events)
            r == response[1].results
        IN  /\ Len(r) = IF Len(d) < max_search_results THEN Len(d) ELSE max_search_results
            /\ \A i \in 1..Len(r) :
                  /\ r[i].title = (IF d[i].title = None THEN <<>> ELSE d[i].title)
                  /\ r[i].url = (IF d[i].url = None THEN <<>> ELSE d[i].url)

C16_Witness ==
    /\ fn = "search"
    /\ pc = "returned"
    /\ max_search_results = 2
    /\ Len(events) = 3
    /\ events[1].content = <<ItemX, ItemB>>
    /\ events[2].delta_type = "text_delta"
    /\ events[3].content = <<ItemB, ItemC, ItemA>>
    /\ Len(results) = 4
    /\ Len(response[1].results) = 2
    /\ response[1].results[1].url = <<>>
    /\ response[1].results[2].title = <<>>

\* the chunks one after the other, last chunk last
RECURSIVE Chained(_)
Chained(parts) ==
    IF parts = <<>> THEN <<>>
    ELSE Chained(SubSeq(parts, 1, Len(parts) - 1)) \o parts[Len(parts)]

\* C17: research_streaming yields one token event per text delta, in arrival
\* order, and when the stream has ended exactly one raw_text event, its last
\* event, whose payload is the token payloads chained; search returns the
\* same chain as raw_text.
C17_NarrativeIsChainOfDeltas ==
    /\ fn = "research_streaming" =>
          /\ Payloads("token") = DeltaTexts(events)
          /\ pc # "returned" => Payloads("raw_text") = <<>>
          /\ pc = "returned" =>
                /\ Payloads("raw_text") = << Chained(Payloads("token")) >>
                /\ yielded[Len(yielded)].event = "raw_text"
    /\ (fn = "search" /\ pc = "returned") =>
          response[1].raw_text = Chained(DeltaTexts(events))

C17_Witness ==
    /\ fn = "research_streaming"
    /\ pc = "returned"
    /\ Len(yielded) = 4
    /\ yielded[1] = [event |-> "token", payload |-> <<"b", " ">>]
    /\ yielded[2].event = "source"
    /\ yielded[3] = [event |-> "token", payload |-> <<"a">>]
    /\ yielded[4] = [event |-> "raw_text", payload |-> <<"b", " ", "a">>]

\* C18: when the stream fails, the error leaves the call and nothing is
\* finalized: research_streaming has yielded the token and source events of
\* the events before the failure and no raw_text event, search returns no
\* SearchResponse.
C18_FailureFinalizesNothing ==
    error = "APIError" =>
        /\ pc = "raised"
        /\ response = <<>>
        /\ \A i \in 1..Len(yielded) : yielded[i].event \in { "token", "source" }
        /\ fn = "research_streaming" =>
              Len(yielded) = Len(DeltaTexts(events))
                  + (IF Len(Discovered(events)) < MaxSources
                     THEN Len(Discovered(events))
                     ELSE MaxSources)

C18_Witness ==
    /\ error = "APIError"
    /\ fn = "research_streaming"
    /\ Len(events) = 2
    /\ Len(yielded) = 2
    /\ yielded[1].event = "source"
    /\ yielded[2].event = "token"

\* the tool-result events and the text-delta events of the stream, in order
ToolResults ==
    SelectSeq(events, LAMBDA ev : /\ ev.type = "content_block_start"
                                  /\ ev.block_type = "web_search_tool_result")
TextDeltas ==
    SelectSeq(events, LAMBDA ev : /\ ev.type = "content_block_delta"
                                  /\ ev.delta_type = "text_delta")

\* what search and research_streaming make of the events evs read alone
RECURSIVE SearchOf(_)
SearchOf(evs) ==
    IF evs = <<>> THEN [results |-> <<>>, text_parts |-> <<>>]
    ELSE search_event(SearchOf(SubSeq(evs, 1, Len(evs) - 1)), evs[Len(evs)])

RECURSIVE ResearchOf(_)
ResearchOf(evs) ==
    IF evs = <<>> THEN [sources |-> <<>>, text_parts |-> <<>>, yielded |-> <<>>]
    ELSE research_event(ResearchOf(SubSeq(evs, 1, Len(evs) - 1)), evs[Len(evs)])

\* C19: the outcome does not depend on how the events are interleaved: the
\* result list is that of the tool-result events read alone, the narrative
\* that of the text-delta events read alone; without tool-result events the
\* list is empty, without text-delta events the narrative is empty, both
\* without error.
C19_OutcomeOfSubsequencesOnly ==
    pc = "returned" =>
        /\ error = "none"
        /\ fn = "search" =>
              /\ results = SearchOf(ToolResults).results
              /\ text_parts = SearchOf(TextDeltas).text_parts
              /\ ToolResults = <<>> => response[1].results = <<>>
              /\ TextDeltas = <<>> => response[1].raw_text = <<>>
        /\ fn = "research_streaming" =>
              /\ sources = ResearchOf(ToolResults).sources
              /\ text_parts = ResearchOf(TextDeltas).text_parts
              /\ ToolResults = <<>> => Payloads("source") = <<>>
              /\ TextDeltas = <<>> => Payloads("raw_text") = << <<>> >>

C19_Witness ==
    /\ pc = "returned"
    /\ fn = "search"
    /\ Len(events) = 3
    /\ events[1].delta_type = "text_delta"
    /\ events[2].block_type = "web_search_tool_result"
    /\ events[3].delta_type = "text_delta"
    /\ Len(results) = 3
    /\ Len(text_parts) = 2

(***************************************************************************)
(* What the claims about generate_executive_summary speak of.              *)
(***************************************************************************)
\* C20: generate_executive_summary with an empty result list returns an
\* overview saying that no results were found for the query, with
\* key_themes, notable_trends and top_entities empty, and makes no external
\* call, whatever the narrative text is.
C20_NoResultsNoCall ==
    (pc = "summarized" /\ results = <<>>) =>
        /\ summary[1].overview = <<"N","o"," ","r","e","s","u","l","t","s"," ","f","o","u","n","d"," ","f","o","r"," ","'">> \o query \o <<"'", ".">>
        /\ summary[1].key_themes = <<>>
        /\ summary[1].notable_trends = <<>>
        /\ summary[1].top_entities = <<>>
        /\ calls = <<>>

C20_Witness ==
    /\ pc = "summarized"
    /\ results = <<>>
    /\ raw_text = <<"r","e","p","o","r","t">>
    /\ api.kind = "object"
    /\ _client = "None"
    /\ calls = <<>>
    /\ summary[1].overview = <<"N","o"," ","r","e","s","u","l","t","s"," ","f","o","u","n","d"," ","f","o","r"," ","'","a","i","'",".">>

\* the narrative holds nothing but whitespace
OnlyWhitespace(rt) == \A k \in 1..Len(rt) : rt[k] \in { " ", "\t", "\n", "\r" }

\* rt from its first to its last character that is not whitespace
Trimmed(rt) ==
    LET inked == { k \in 1..Len(rt) : rt[k] \notin { " ", "\t", "\n", "\r" } }
        first == CHOOSE k \in inked : \A j \in inked : k <= j
        last  == CHOOSE k \in inked : \A j \in inked : j <= k
    IN  IF inked = {} THEN <<>> ELSE [k \in 1..(last - first + 1) |-> rt[first + k - 1]]

\* the synthesis requests among the external calls made
SynthesisCalls == { k \in 1..Len(calls) : calls[k].op = "create" }

\* C21 as stated, for a non-empty result list: whenever the narrative text
\* is non-empty, the overview is the narrative character for character, no
\* external call is made and the three list fields are empty.
C21_NarrativeVerbatim ==
    (pc = "summarized" /\ results # <<>> /\ raw_text # None /\ raw_text # <<>>) =>
        /\ summary[1].overview = raw_text
        /\ calls = <<>>
        /\ summary[1].key_themes = <<>>
        /\ summary[1].notable_trends = <<>>
        /\ summary[1].top_entities = <<>>

\* C21 as amended: with a non-empty result list and a narrative that holds
\* a character other than whitespace, the overview is the narrative without
\* its leading and trailing whitespace, no external call is made and the
\* three list fields are empty; a narrative of whitespace only is treated
\* as an absent one and the synthesis request is made.
C21_NarrativeStripped ==
    (pc = "summarized" /\ results # <<>> /\ raw_text # None /\ raw_text # <<>>) =>
        IF OnlyWhitespace(raw_text)
        THEN SynthesisCalls # {}
        ELSE /\ summary[1].overview = Trimmed(raw_text)
             /\ calls = <<>>
             /\ summary[1].key_themes = <<>>
             /\ summary[1].notable_trends = <<>>
             /\ summary[1].top_entities = <<>>

C21_Witness ==
    /\ pc = "summarized"
    /\ Len(results) = 1
    /\ raw_text = <<" ","a"," ","r","e","p","o","r","t","\n">>
    /\ summary[1].overview = <<"a"," ","r","e","p","o","r","t">>
    /\ api.kind = "object"
    /\ calls = <<>>

\* the count written in decimal, for counts below 100
CountText(n) ==
    LET D == [d \in 0..9 |-> <<"0", "1", "2", "3", "4", "5", "6", "7", "8", "9">>[d + 1]]
    IN  IF n < 10 THEN <<D[n]>> ELSE <<D[n \div 10], D[n % 10]>>

\* the summary that reports only the number of results
CountOnly ==
    [overview |-> <<"F","o","u","n","d"," ">> \o CountText(Len(results))
                    \o <<" ","r","e","s","u","l","t","s"," ","f","o","r"," ","'">>
                    \o query \o <<"'", ".">>,
     key_themes |-> <<>>, notable_trends |-> <<>>, top_entities |-> <<>>]

\* the request failed: it raised, or its output is not a JSON object
RequestFailed == api.kind \in { "raises", "no_content", "not_json", "not_object" }

NotConforming ==
    /\ api.kind = "object"
    /\ api.has # { "overview", "key_themes", "notable_trends", "top_entities" }

\* C23: an answer that is a JSON object but lacks a required field is a
\* total failure: the summary returned is the one that reports only the
\* result count, never a partly filled one, and for non-empty results the
\* overview returned is never empty.
C23_NonConformingIsFailure ==
    (pc = "summarized" /\ results # <<>>) =>
        /\ summary[1].overview # <<>>
        /\ (raw_text \in { None, <<>> } /\ NotConforming) => summary[1] = CountOnly

(***************************************************************************)
(* What the claims about structure speak of.                               *)
(***************************************************************************)
\* the first 10 streaming sources, in capture order
FirstTenCaptured ==
    [k \in 1..(IF Len(sources) < 10 THEN Len(sources) ELSE 10) |-> sources[k]]

SavesOf(id) == { k \in 1..Len(calls) : calls[k].op = "save" /\ calls[k].id = id }

\* id was deleted by a call after position k and before position n
DeletedBetween(id, k, n) ==
    \E j \in (k + 1)..(n - 1) : calls[j].op = "delete" /\ calls[j].id = id

\* the saves of id that stand when the first n - 1 calls are made
StandingBefore(id, n) == { k \in SavesOf(id) : k < n /\ ~DeletedBetween(id, k, n) }

Standing(id) == StandingBefore(id, Len(calls) + 1)

\* the entry is the one the save at position k stored
IsEntryOf(e, k) ==
    /\ e.id = calls[k].id
    /\ e.topic = calls[k].topic
    /\ e.summary = calls[k].summary

\* what get_by_id is to return for id
Expected(out, id) ==
    /\ out.error = "none"
    /\ IF Standing(id) = {}
       THEN out.result = <<>>
       ELSE /\ Len(out.result) = 1
            /\ \E k \in Standing(id) : IsEntryOf(out.result[1], k)

\* C25: after any save and delete calls, get_by_id(id) returns the entry
\* with the id, topic and summary of the save that returned id when id was
\* saved and not deleted since, and no entry otherwise; delete(id) returns
\* True exactly when the entry was there, and afterwards every other id
\* still reads as before (the first conjunct, holding after the delete for
\* every id).
C25_SavedUntilDeleted ==
    /\ \A id \in 1..MaxOps : Expected(get_by_id(rows, id), id)
    /\ \A n \in 1..Len(returned) :
           /\ returned[n].op = "get_by_id" => Expected(returned[n], returned[n].arg)
           /\ returned[n].op = "delete" =>
                  /\ calls[Len(calls)].op = "delete"
                  /\ calls[Len(calls)].id = returned[n].arg
                  /\ returned[n].result = (StandingBefore(returned[n].arg, Len(calls)) # {})

C25_Witness ==
    /\ Len(calls) = 3
    /\ calls[1].op = "save" /\ calls[1].id = 1
    /\ calls[2].op = "save" /\ calls[2].id = 2
    /\ calls[2].summary.overview = <<"\"","h","i","\"">>
    /\ calls[3].op = "delete" /\ calls[3].id = 1 /\ calls[3].result = TRUE
    /\ Len(returned) = 1
    /\ returned[1].op = "get_by_id"
    /\ returned[1].arg = 2
    /\ Len(returned[1].result) = 1
    /\ returned[1].result[1].summary = calls[2].summary
    /\ get_by_id(rows, 1).result = <<>>

\* the ids of the standing saves, the latest save first
RECURSIVE NewestFirst(_)
NewestFirst(n) ==
    IF n = 0 THEN <<>>
    ELSE (IF calls[n].op = "save" /\ n \in Standing(calls[n].id) THEN <<n>> ELSE <<>>)
             \o NewestFirst(n - 1)

\* C26: the ids save hands out grow strictly, so that none is handed out
\* twice, a delete or not between; and get_all(limit) with limit >= 0
\* returns at most limit entries, the latest saved of the entries now
\* stored, the latest first.
C26_NewestFirstWithinLimit ==
    /\ \A j, k \in 1..Len(calls) :
           (j < k /\ calls[j].op = "save" /\ calls[k].op = "save") => calls[j].id < calls[k].id
    /\ \A n \in 1..Len(returned) :
           (returned[n].op = "get_all" /\ returned[n].arg >= 0) =>
               LET out == returned[n].result
                   newest == NewestFirst(Len(calls))
               IN  /\ Len(out) <= returned[n].arg
                   /\ Len(out) = IF Len(newest) < returned[n].arg
                                 THEN Len(newest) ELSE returned[n].arg
                   /\ \A i \in 1..Len(out) : IsEntryOf(out[i], newest[i])

C26_Witness ==
    /\ Len(calls) = 3
    /\ \A k \in 1..3 : calls[k].op = "save" /\ calls[k].id = k
    /\ Len(returned) = 1
    /\ returned[1].op = "get_all"
    /\ returned[1].arg = 2
    /\ Len(returned[1].result) = 2
    /\ returned[1].result[1].id = 3
    /\ returned[1].result[2].id = 2

(***************************************************************************)
(* What the claims about search_api speak of.                              *)
(***************************************************************************)
\* the request is answered
Answered == fn = "search_api" /\ pc = "done"

\* the body carries no query, an empty one or one of whitespace only
InputError ==
    \/ request.body # "dict"
    \/ "query" \notin request.has
    \/ request.query_type = "null"
    \/ (request.query_type = "str" /\ Blank(request.query))

\* the stream of the external research call failed
StreamFailed == Len(calls) > 0 /\ calls[Len(calls)].op = "stream" /\ error # "none"

\* C24 as stated: every request ends in exactly one response; a failed one
\* leaves no history entry, and a successful one leaves exactly one history
\* entry and answers 200 with the query, the intent, the time range, the
\* summary and the sections.
C24_OneSignalOneEntry ==
    Answered =>
        /\ Len(http) = 1
        /\ http[1].status # 200 => rows = <<>>
        /\ http[1].status = 200 =>
               /\ Len(rows) = 1
               /\ Len(http[1].body) = 1
               /\ http[1].body[1].summary = summary[1]

\* C29 as stated: the response has status 400 exactly when the request
\* carries no query, an empty one or one of whitespace only, and status 500
\* whenever the stream of the external call failed.
C29_StatusByCause ==
    Answered =>
        /\ http[1].status = 400 <=> InputError
        /\ StreamFailed => http[1].status = 500

\* the sources discovered, in discovery order
Found == Discovered(events)

\* source i is the first with its normalized URL, and that URL is not empty
FirstOfItsUrl(i) ==
    /\ Canon(Found[i].url) # <<>>
    /\ \A j \in 1..(i - 1) : Canon(Found[j].url) # Canon(Found[i].url)

Firsts == { i \in 1..Len(Found) : FirstOfItsUrl(i) }

\* the results of all sections of the response
RECURSIVE ShownFrom(_)
ShownFrom(secs) ==
    IF secs = <<>> THEN <<>> ELSE Head(secs).results \o ShownFrom(Tail(secs))

Shown == ShownFrom(http[1].body[1].sections)

\* the sections hold exactly the sources of the positions in expected
ShowsExactly(expected) ==
    /\ Len(Shown) = Cardinality(expected)
    /\ { <<Shown[k].title, Shown[k].url>> : k \in 1..Len(Shown) }
           = { <<OrEmpty(Found[i].title), OrEmpty(Found[i].url)>> : i \in expected }

\* C30 as stated: the sections together hold the first occurrences of the
\* first max_search_results distinct non-empty normalized URLs discovered,
\* min(max_search_results, number of distinct URLs) results.
C30_FirstDistinctShown ==
    (Answered /\ http[1].status = 200) =>
        ShowsExactly({ i \in Firsts :
                         Cardinality({ j \in Firsts : j < i }) < max_search_results })

\* C30 as amended: the sections together hold the first occurrences of the
\* distinct non-empty normalized URLs found among the first
\* max_search_results discovered sources; a duplicate or a source without
\* URL among these takes the place of a later distinct source.
C30_DistinctAmongFirstShown ==
    (Answered /\ http[1].status = 200) =>
        ShowsExactly({ i \in Firsts : i <= max_search_results })

C30_Witness ==
    /\ Answered
    /\ http[1].status = 200
    /\ max_search_results = 2
    /\ Len(Found) = 4
    /\ Firsts = { 1, 3 }
    /\ Len(Shown) = 1

(***************************************************************************)
(* What the claims about concurrent requests speak of.                     *)
(***************************************************************************)
\* the clients request r works with, once it has taken them
ClientsOf(r) == { runs[r].client, runs[r].summarizer } \ { "None" }

\* C27 as stated: no request reads state another request has written; the
\* clients a request works with are clients it has built itself, and its
\* results and narrative are those of its own stream.
C27_NothingShared ==
    \A r \in Runs :
        /\ ClientsOf(r) \subseteq { ClientBuiltBy(r) }
        /\ runs[r].results = SearchOf(runs[r].events).results
        /\ runs[r].text_parts = SearchOf(runs[r].events).text_parts

\* C27 as amended: each request has its own results and narrative, which
\* are those of its own stream whatever the other request does, and so is
\* the response its search returns; the clients of the orchestrator and of
\* the summarizer are shared: a request works with a client some request
\* has built, its own or the other's.
C27_OwnBuffersSharedClients ==
    \A r \in Runs :
        /\ runs[r].results = SearchOf(runs[r].events).results
        /\ runs[r].text_parts = SearchOf(runs[r].events).text_parts
        /\ runs[r].response # <<>> =>
               /\ Len(runs[r].response[1].results) = Len(SearchOf(runs[r].events).results)
               /\ runs[r].response[1].raw_text = Chained(SearchOf(runs[r].events).text_parts)
               /\ runs[r].response[1].query = RunQueries[r]
        /\ ClientsOf(r) \subseteq { ClientBuiltBy(x) : x \in Runs }
        /\ runs[r].pc \in { "streaming", "summary", "summary_build", "summary_take", "done" }
               => runs[r].client # "None"

C27_Witness ==
    /\ runs[1].pc = "done"
    /\ runs[2].pc = "done"
    /\ runs[1].client = "Anthropic1"
    /\ runs[2].client = "Anthropic1"
    /\ runs[2].summarizer = "Anthropic2"
    /\ runs[1].summarizer = "None"
    /\ Len(runs[1].results) = 0
    /\ Len(runs[1].text_parts) = 2
    /\ Len(runs[2].results) = 4
    /\ runs[2].text_parts = <<>>

====
